---- MODULE Spec2Model ----
(***************************************************************************)
(* Options-flow analytics of scripts/options_data.py (OptionsDataClient).  *)
(* One request is modelled as: get_options_chain parses the upstream       *)
(* contracts one by one and returns a chain mapping (or an error mapping), *)
(* then one public operation (calculate_max_pain via get_max_pain, or      *)
(* analyze_options_flow) runs on that chain and returns.                   *)
(*                                                                         *)
(* Numbers: strikes, last prices, volumes and open interest are integers;  *)
(* the underlying price is in sixteenths of a dollar (exact as a float)    *)
(* and distance_to_max_pain in hundredths of a dollar.                     *)
(* A Python float ratio is kept exact as a record                          *)
(*   [inf |-> TRUE] (float('inf'))  or  [inf |-> FALSE, num, den], den > 0 *)
(* and compared with the decimal literals of the source by cross           *)
(* multiplication.  An Optional value is a sequence of length 0 or 1.      *)
(***************************************************************************)
EXTENDS Integers, Sequences, FiniteSets, TLC

VARIABLES
    pc,            \* "fetch": get_options_chain is parsing; "ready": it returned;
                   \* "done": the public operation returned or raised
    chain,         \* the mapping get_options_chain builds and returns
    op,            \* the public operation run on the chain
    max_pain_ret,  \* Optional: the value get_max_pain returned
    analysis,      \* Optional: the mapping analyze_options_flow returned
    raised,        \* the exception the operation raised, or "none"
    steps,         \* the analytics helpers analyze_options_flow called
    frame,         \* Optional: the locals of analyze_options_flow
    threshold_arg, \* Optional: the volume multiplier the caller passed
    heap,          \* the objects alive, by identity: heap[id] is object id
    roots,         \* the identities the caller holds: client, chain, results
    limiter,       \* the RateLimiter objects, by name: max_calls, period, calls
    clock,         \* what time.time() returns, in whole seconds
    threads,       \* each thread's position in, and locals of, the wrapper
    history        \* the timestamps of the invocations whose function ran, and
                   \* the least oldest recorded call a rejection has reported

vars == <<pc, chain, op, max_pain_ret, analysis, raised, steps, frame, threshold_arg,
          heap, roots, limiter, clock, threads, history>>

\* What the rate limiting reads and writes
Limiting == <<limiter, clock, threads, history>>

\* ------------------------------------------------------------------ bounds
\* Contracts of a chain, calls and puts together.
MaxContracts == 3
\* Largest open interest of one contract.
MaxOI == 1
\* Largest volume of one contract.
MaxVol == 1
\* Ratios num / den handed to _interpret_sentiment directly.
MaxRatioNum == 16
MaxRatioDen == 10
\* Largest summed open interest handed to _interpret_sentiment directly.
MaxSentimentOI == 6
\* Lists handed to the helpers directly are made of at most MaxBlocks runs
\* (calls and puts together), each one contract repeated 1 or MaxRun times.
MaxBlocks == 3
MaxRun == 6
\* Largest max_calls and period (in seconds) of a limiter built for a
\* function, and the last second of the clock.
MaxCalls == 2
MaxPeriod == 2
MaxTime == 3
\* Threads calling one decorated function, and the calls they may have
\* begun or completed with the function run.
MaxThreads == 2
MaxInvocations == 3
\* Whole periods of the Alpha Vantage quota the clock runs after the first.
MaxQuotaPeriods == 1

\* ----------------------------------------------------------------- helpers
None == <<>>
Some(x) == <<x>>

Abs(x) == IF x < 0 THEN -x ELSE x

RECURSIVE SumSeq(_)
SumSeq(s) == IF s = <<>> THEN 0 ELSE Head(s) + SumSeq(Tail(s))

\* sorted(set): ascending sequence of the elements of a finite set of integers
RECURSIVE sorted(_)
sorted(S) ==
    IF S = {} THEN <<>>
    ELSE LET m == CHOOSE x \in S : \A y \in S : x <= y
         IN  <<m>> \o sorted(S \ {m})

\* dict.get(key, default) on the chain mapping
ChainGet(ch, key, default) == IF key \in DOMAIN ch THEN ch[key] ELSE default

\* ------------------------------------------------------------ data model
\* OptionContract (the fields the analytics read)
OptionContract(k, lp, v, oi, iv) ==
    [strike |-> k, last_price |-> lp, volume |-> v,
     open_interest |-> oi, implied_volatility |-> iv]

\* The mapping get_options_chain returns on success
ChainOf(cs, ps, price) ==
    [calls |-> cs, puts |-> ps, underlying_price |-> price,
     call_count |-> Len(cs), put_count |-> Len(ps)]

\* The mapping get_options_chain returns on failure
ErrorChain == [error |-> "Error fetching options"]

\* ------------------------------------------------------ calculate_max_pain
\* TotalPain with the open interest left out of the product
TotalPainNoOI(strike, calls, puts) ==
    LET CallPain(c) == IF strike > c.strike THEN (strike - c.strike) * 100 ELSE 0
        PutPain(p)  == IF strike < p.strike THEN (p.strike - strike) * 100 ELSE 0
    IN  SumSeq([i \in 1..Len(calls) |-> CallPain(calls[i])])
        + SumSeq([i \in 1..Len(puts) |-> PutPain(puts[i])])

\* TotalPain with the calls' in-the-money test reversed
TotalPainCallsReversed(strike, calls, puts) ==
    LET CallPain(c) == IF strike < c.strike
                       THEN (c.strike - strike) * c.open_interest * 100
                       ELSE 0
        PutPain(p)  == IF strike < p.strike
                       THEN (p.strike - strike) * p.open_interest * 100
                       ELSE 0
    IN  SumSeq([i \in 1..Len(calls) |-> CallPain(calls[i])])
        + SumSeq([i \in 1..Len(puts) |-> PutPain(puts[i])])

\* total_pain of one candidate strike (inner two loops)
TotalPain(strike, calls, puts) ==
    LET CallPain(c) == IF strike > c.strike
                       THEN (strike - c.strike) * c.open_interest * 100
                       ELSE 0
        PutPain(p)  == IF strike < p.strike
                       THEN (p.strike - strike) * p.open_interest * 100
                       ELSE 0
    IN  SumSeq([i \in 1..Len(calls) |-> CallPain(calls[i])])
        + SumSeq([i \in 1..Len(puts) |-> PutPain(puts[i])])

\* The loop over the sorted strikes, from index i, carrying min_pain
\* ([inf |-> TRUE] is float('inf')) and max_pain_strike.
\* PainLoop with `total_pain <= min_pain`: the last minimum wins
RECURSIVE PainLoopLastMin(_, _, _, _, _, _)
PainLoopLastMin(strikes, i, calls, puts, min_pain, max_pain_strike) ==
    IF i > Len(strikes) THEN max_pain_strike
    ELSE LET total_pain == TotalPain(strikes[i], calls, puts)
             lower == min_pain.inf \/ total_pain <= min_pain.v
         IN  IF lower
             THEN PainLoopLastMin(strikes, i + 1, calls, puts,
                                  [inf |-> FALSE, v |-> total_pain], strikes[i])
             ELSE PainLoopLastMin(strikes, i + 1, calls, puts, min_pain, max_pain_strike)

RECURSIVE PainLoop(_, _, _, _, _, _)
PainLoop(strikes, i, calls, puts, min_pain, max_pain_strike) ==
    IF i > Len(strikes) THEN max_pain_strike
    ELSE LET total_pain == TotalPain(strikes[i], calls, puts)
             lower == min_pain.inf \/ total_pain < min_pain.v
         IN  IF lower
             THEN PainLoop(strikes, i + 1, calls, puts,
                           [inf |-> FALSE, v |-> total_pain], strikes[i])
             ELSE PainLoop(strikes, i + 1, calls, puts, min_pain, max_pain_strike)

AllStrikes(calls, puts) ==
    {calls[i].strike : i \in 1..Len(calls)} \cup {puts[i].strike : i \in 1..Len(puts)}

\* calculate_max_pain with min_pain initialised to 0: no strike is lower
calculate_max_pain_zero_floor(ch) ==
    IF "error" \in DOMAIN ch THEN 0
    ELSE LET calls == ChainGet(ch, "calls", <<>>)
             puts  == ChainGet(ch, "puts", <<>>)
             strikes == sorted(AllStrikes(calls, puts))
         IN  PainLoop(strikes, 1, calls, puts, [inf |-> FALSE, v |-> 0], 0)

\* calculate_max_pain with max_pain_strike initialised to a -1 sentinel
calculate_max_pain_sentinel(ch) ==
    IF "error" \in DOMAIN ch THEN 0
    ELSE LET calls == ChainGet(ch, "calls", <<>>)
             puts  == ChainGet(ch, "puts", <<>>)
             strikes == sorted(AllStrikes(calls, puts))
         IN  PainLoop(strikes, 1, calls, puts, [inf |-> TRUE, v |-> 0], -1)

calculate_max_pain(ch) ==
    IF "error" \in DOMAIN ch THEN 0
    ELSE LET calls == ChainGet(ch, "calls", <<>>)
             puts  == ChainGet(ch, "puts", <<>>)
             strikes == sorted(AllStrikes(calls, puts))
         IN  PainLoop(strikes, 1, calls, puts, [inf |-> TRUE, v |-> 0], 0)

\* ------------------------------------------------------------ float ratios
Inf == [inf |-> TRUE, num |-> 1, den |-> 0]
Rat(n, d) == [inf |-> FALSE, num |-> n, den |-> d]

\* Python's n / d on numbers: a zero divisor raises ZeroDivisionError, kept
\* as the finite ratio with den = 0.
TrueDiv(n, d) == Rat(n, d)
RaisesZeroDivision(r) == ~r.inf /\ r.den = 0

\* RatGt with >= for >
RatGe(r, a, b) == r.inf \/ r.num * b >= a * r.den

\* r > a/b and r < a/b for a finite literal a/b, b > 0
RatGt(r, a, b) == r.inf \/ r.num * b > a * r.den
RatLt(r, a, b) == ~r.inf /\ r.num * b < a * r.den

\* round(n/d) for n >= 0, d > 0, ties to even (Python's round)
RoundHalfEven(n, d) ==
    LET q == n \div d
        r == n % d
    IN  IF 2 * r < d THEN q
        ELSE IF 2 * r > d THEN q + 1
        ELSE IF q % 2 = 0 THEN q ELSE q + 1

\* round(r, 2): a ratio in hundredths; round(float('inf'), 2) is float('inf')
Round2(r) == IF r.inf THEN Inf ELSE Rat(RoundHalfEven(100 * r.num, r.den), 100)

\* ---------------------------------------------------- _interpret_sentiment
Sentiment(b, s, d) == [bias |-> b, strength |-> s, description |-> d]

\* _interpret_sentiment with the MODERATE rows tested before the STRONG rows
interpret_sentiment_moderate_first(call_put_ratio, call_oi, put_oi) ==
    LET oi_ratio == IF put_oi > 0 THEN TrueDiv(call_oi, put_oi) ELSE Inf
    IN  IF RatGt(call_put_ratio, 12, 10)
        THEN Sentiment("BULLISH", "MODERATE", "Elevated call activity")
        ELSE IF RatGt(call_put_ratio, 15, 10) /\ RatGt(oi_ratio, 12, 10)
        THEN Sentiment("BULLISH", "STRONG", "High call volume and open interest")
        ELSE IF RatLt(call_put_ratio, 9, 10)
        THEN Sentiment("BEARISH", "MODERATE", "Elevated put activity")
        ELSE IF RatLt(call_put_ratio, 7, 10) /\ RatLt(oi_ratio, 8, 10)
        THEN Sentiment("BEARISH", "STRONG", "High put volume and open interest")
        ELSE Sentiment("NEUTRAL", "WEAK", "Balanced call/put activity")

\* _interpret_sentiment with an open-interest ratio of 0 when put_oi is 0
interpret_sentiment_oi_zero(call_put_ratio, call_oi, put_oi) ==
    LET oi_ratio == IF put_oi > 0 THEN TrueDiv(call_oi, put_oi) ELSE Rat(0, 1)
    IN  IF RatGt(call_put_ratio, 15, 10) /\ RatGt(oi_ratio, 12, 10)
        THEN Sentiment("BULLISH", "STRONG", "High call volume and open interest")
        ELSE IF RatGt(call_put_ratio, 12, 10)
        THEN Sentiment("BULLISH", "MODERATE", "Elevated call activity")
        ELSE IF RatLt(call_put_ratio, 7, 10) /\ RatLt(oi_ratio, 8, 10)
        THEN Sentiment("BEARISH", "STRONG", "High put volume and open interest")
        ELSE IF RatLt(call_put_ratio, 9, 10)
        THEN Sentiment("BEARISH", "MODERATE", "Elevated put activity")
        ELSE Sentiment("NEUTRAL", "WEAK", "Balanced call/put activity")

interpret_sentiment(call_put_ratio, call_oi, put_oi) ==
    LET oi_ratio == IF put_oi > 0 THEN TrueDiv(call_oi, put_oi) ELSE Inf
    IN  IF RatGt(call_put_ratio, 15, 10) /\ RatGt(oi_ratio, 12, 10)
        THEN Sentiment("BULLISH", "STRONG", "High call volume and open interest")
        ELSE IF RatGt(call_put_ratio, 12, 10)
        THEN Sentiment("BULLISH", "MODERATE", "Elevated call activity")
        ELSE IF RatLt(call_put_ratio, 7, 10) /\ RatLt(oi_ratio, 8, 10)
        THEN Sentiment("BEARISH", "STRONG", "High put volume and open interest")
        ELSE IF RatLt(call_put_ratio, 9, 10)
        THEN Sentiment("BEARISH", "MODERATE", "Elevated put activity")
        ELSE Sentiment("NEUTRAL", "WEAK", "Balanced call/put activity")

\* ------------------------------------------------- list.sort and slicing
\* InsertDesc that puts x in front of the entries of equal key (unstable)
RECURSIVE InsertDescBeforeTies(_, _, _)
InsertDescBeforeTies(s, x, key) ==
    IF s = <<>> THEN <<x>>
    ELSE IF Head(s)[key] > x[key]
         THEN <<Head(s)>> \o InsertDescBeforeTies(Tail(s), x, key)
    ELSE <<x>> \o s

\* Insert x into a list sorted by non-increasing x[key], behind every entry
\* whose key is >= x[key] (so equal keys keep their order of arrival).
RECURSIVE InsertDesc(_, _, _)
InsertDesc(s, x, key) ==
    IF s = <<>> THEN <<x>>
    ELSE IF Head(s)[key] >= x[key] THEN <<Head(s)>> \o InsertDesc(Tail(s), x, key)
    ELSE <<x>> \o s

\* list.sort(key=lambda x: x[key], reverse=True): stable, descending
RECURSIVE SortDescFrom(_, _, _, _)
SortDescFrom(s, i, acc, key) ==
    IF i > Len(s) THEN acc
    ELSE SortDescFrom(s, i + 1, InsertDesc(acc, s[i], key), key)

SortDesc(s, key) == SortDescFrom(s, 1, <<>>, key)

\* s[-n:] for s[:n]
TakeLast(s, n) == SubSeq(s, IF Len(s) < n THEN 1 ELSE Len(s) - n + 1, Len(s))

\* s[:n]
Take(s, n) == SubSeq(s, 1, IF Len(s) < n THEN Len(s) ELSE n)

\* The entries s[j], j >= i, with keep[j]
RECURSIVE FilterFrom(_, _, _)
FilterFrom(s, i, keep) ==
    IF i > Len(s) THEN <<>>
    ELSE (IF keep[i] THEN <<s[i]>> ELSE <<>>) \o FilterFrom(s, i + 1, keep)

\* [x for x in s if P(x)] is Select(s, [i \in 1..Len(s) |-> P(s[i])])
Select(s, keep) == FilterFrom(s, 1, keep)

\* --------------------------------------------------- _detect_unusual_volume
\* implied_volatility is carried in units of 0.0001, so round(iv * 100, 2)
\* is the same count read in units of 0.01 percent.
IvPercent(iv) == RoundHalfEven(iv * 100, 100)

\* CallTag with >= for >, PutTag with <= for <
CallTagGe(c) == IF c.strike >= c.last_price THEN "BULLISH" ELSE "SPECULATIVE"
PutTagLe(p) == IF p.strike <= p.last_price THEN "BEARISH" ELSE "HEDGE"

\* "BULLISH" if call.strike > call.last_price else "SPECULATIVE"
CallTag(c) == IF c.strike > c.last_price THEN "BULLISH" ELSE "SPECULATIVE"
\* "BEARISH" if put.strike < put.last_price else "HEDGE"
PutTag(p) == IF p.strike < p.last_price THEN "BEARISH" ELSE "HEDGE"

\* IsUnusual without the floor of 10 contracts
IsUnusualNoFloor(volume, n, total, threshold) ==
    volume * n * threshold.den >= total * threshold.num

\* volume >= threshold_volume and volume > 10, where threshold_volume is
\* avg_volume * threshold and avg_volume is total / n (n > 0)
IsUnusual(volume, n, total, threshold) ==
    /\ volume * n * threshold.den >= total * threshold.num
    /\ volume > 10

\* all_volumes of _detect_unusual_volume
AllVolumes(calls, puts) ==
    LET Vol(c) == c.volume
    IN  [i \in 1..Len(calls) |-> Vol(calls[i])] \o [i \in 1..Len(puts) |-> Vol(puts[i])]

\* avg_volume == 0: no contract, or no volume at all
AvgVolumeIsZero(calls, puts) ==
    Len(AllVolumes(calls, puts)) = 0 \/ SumSeq(AllVolumes(calls, puts)) = 0

\* The alerts the two loops append, in the order appended (avg_volume # 0);
\* threshold is the multiplier as a ratio th.num / th.den
unusual_alerts(calls, puts, threshold) ==
    LET all_volumes == AllVolumes(calls, puts)
        n == Len(all_volumes)
        total == SumSeq(all_volumes)
        Flagged(c) == IsUnusual(c.volume, n, total, threshold)
        CallAlert(c) == [type |-> "CALL", strike |-> c.strike, volume |-> c.volume,
                         open_interest |-> c.open_interest,
                         implied_volatility |-> IvPercent(c.implied_volatility),
                         sentiment |-> CallTag(c)]
        PutAlert(p) ==  [type |-> "PUT", strike |-> p.strike, volume |-> p.volume,
                         open_interest |-> p.open_interest,
                         implied_volatility |-> IvPercent(p.implied_volatility),
                         sentiment |-> PutTag(p)]
        hot_calls == Select(calls, [i \in 1..Len(calls) |-> Flagged(calls[i])])
        hot_puts  == Select(puts, [i \in 1..Len(puts) |-> Flagged(puts[i])])
    IN  [i \in 1..Len(hot_calls) |-> CallAlert(hot_calls[i])]
        \o [i \in 1..Len(hot_puts) |-> PutAlert(hot_puts[i])]

\* _detect_unusual_volume: the early return, or the alerts sorted and cut
detect_unusual_volume(calls, puts, threshold) ==
    IF AvgVolumeIsZero(calls, puts) THEN <<>>
    ELSE Take(SortDesc(unusual_alerts(calls, puts, threshold), "volume"), 10)

\* --------------------------------------------------- _find_largest_positions
\* all_contracts as the two loops build it
all_positions(calls, puts) ==
    LET CallPos(c) == [type |-> "CALL", strike |-> c.strike,
                       open_interest |-> c.open_interest,
                       implied_volatility |-> IvPercent(c.implied_volatility)]
        PutPos(p) ==  [type |-> "PUT", strike |-> p.strike,
                       open_interest |-> p.open_interest,
                       implied_volatility |-> IvPercent(p.implied_volatility)]
    IN  [i \in 1..Len(calls) |-> CallPos(calls[i])]
        \o [i \in 1..Len(puts) |-> PutPos(puts[i])]

\* all_contracts.sort(key=open_interest, reverse=True); all_contracts[:10]
find_largest_positions(calls, puts) ==
    Take(SortDesc(all_positions(calls, puts), "open_interest"), 10)

\* ------------------------------------------------------ analyze_options_flow
\* CallPutRatio without the put_volume > 0 guard
CallPutRatioUnguarded(call_volume, put_volume) == TrueDiv(call_volume, put_volume)

\* CallPutRatio that answers 0 when nothing traded on either side
CallPutRatioZero(call_volume, put_volume) ==
    IF put_volume > 0 THEN TrueDiv(call_volume, put_volume)
    ELSE IF call_volume > 0 THEN Inf ELSE Rat(0, 1)

\* call_volume / put_volume if put_volume > 0 else float('inf')
CallPutRatio(call_volume, put_volume) ==
    IF put_volume > 0 THEN TrueDiv(call_volume, put_volume) ELSE Inf

\* DistanceToMaxPain without abs()
DistanceToMaxPainSigned(ch, max_pain) ==
    LET price == ChainGet(ch, "underlying_price", Some(0))
    IN  IF max_pain = 0 THEN [raises |-> FALSE, value |-> None]
        ELSE IF price = None THEN [raises |-> TRUE, value |-> None]
        ELSE [raises |-> FALSE,
              value |-> Some(IF price[1] >= 16 * max_pain
                             THEN RoundHalfEven(100 * (price[1] - 16 * max_pain), 16)
                             ELSE 0 - RoundHalfEven(100 * (16 * max_pain - price[1]), 16))]

\* round(abs(chain.get("underlying_price", 0) - max_pain), 2) if max_pain else None
\* None - float raises TypeError, reported as [raises |-> TRUE].  The price is
\* in sixteenths of a dollar and max_pain in dollars, so the difference is
\* exact in floating point; the value is in hundredths of a dollar.
DistanceToMaxPain(ch, max_pain) ==
    LET price == ChainGet(ch, "underlying_price", Some(0))
    IN  IF max_pain = 0 THEN [raises |-> FALSE, value |-> None]
        ELSE IF price = None THEN [raises |-> TRUE, value |-> None]
        ELSE [raises |-> FALSE,
              value |-> Some(RoundHalfEven(100 * Abs(price[1] - 16 * max_pain), 16))]

\* AverageIV over every contract, implied volatility 0 included
AverageIVAll(calls, puts) ==
    LET IV(c) == c.implied_volatility
        call_iv == [i \in 1..Len(calls) |-> IV(calls[i])]
        put_iv  == [i \in 1..Len(puts) |-> IV(puts[i])]
    IN  IF call_iv # <<>> \/ put_iv # <<>>
        THEN TrueDiv(SumSeq(call_iv) + SumSeq(put_iv), Len(call_iv) + Len(put_iv))
        ELSE Rat(0, 1)

\* call_iv = [c.implied_volatility for c in calls if c.implied_volatility > 0],
\* put_iv likewise; avg_iv = (sum(call_iv) + sum(put_iv)) / (len(call_iv) +
\* len(put_iv)) if call_iv or put_iv else 0
AverageIV(calls, puts) ==
    LET IV(c)  == c.implied_volatility
        HasIV(c) == c.implied_volatility > 0
        iv_calls == Select(calls, [i \in 1..Len(calls) |-> HasIV(calls[i])])
        iv_puts  == Select(puts, [i \in 1..Len(puts) |-> HasIV(puts[i])])
        call_iv == [i \in 1..Len(iv_calls) |-> IV(iv_calls[i])]
        put_iv  == [i \in 1..Len(iv_puts) |-> IV(iv_puts[i])]
    IN  IF call_iv # <<>> \/ put_iv # <<>>
        THEN TrueDiv(SumSeq(call_iv) + SumSeq(put_iv), Len(call_iv) + Len(put_iv))
        ELSE Rat(0, 1)

AllSteps == {"max_pain", "unusual_volume", "largest_positions", "sentiment"}

\* The analytics path of analyze_options_flow (from `calls = chain.get(...)`
\* to the returned mapping).  The outcome is ret (Optional result mapping),
\* raised, the helpers called and the locals.
Analytics(ch, volume_threshold) ==
    LET calls == ChainGet(ch, "calls", <<>>)
        puts  == ChainGet(ch, "puts", <<>>)
        Vol(c) == c.volume
        OI(c)  == c.open_interest
        call_volume == SumSeq([i \in 1..Len(calls) |-> Vol(calls[i])])
        put_volume  == SumSeq([i \in 1..Len(puts) |-> Vol(puts[i])])
        total_volume == call_volume + put_volume
        call_put_ratio == CallPutRatio(call_volume, put_volume)
        call_oi == SumSeq([i \in 1..Len(calls) |-> OI(calls[i])])
        put_oi  == SumSeq([i \in 1..Len(puts) |-> OI(puts[i])])
        avg_iv  == AverageIV(calls, puts)
        max_pain == calculate_max_pain(ch)
        unusual_activity == detect_unusual_volume(calls, puts, volume_threshold)
        largest_positions == find_largest_positions(calls, puts)
        sentiment == interpret_sentiment(call_put_ratio, call_oi, put_oi)
        distance == DistanceToMaxPain(ch, max_pain)
        locals == [call_volume |-> call_volume, put_volume |-> put_volume,
                   call_put_ratio |-> call_put_ratio,
                   call_oi |-> call_oi, put_oi |-> put_oi,
                   avg_iv |-> avg_iv,
                   volume_threshold |-> volume_threshold,
                   sentiment |-> sentiment]
    IN  IF RaisesZeroDivision(call_put_ratio)
        THEN [ret |-> None, raised |-> "ZeroDivisionError", steps |-> {},
              frame |-> Some(locals)]
        ELSE IF distance.raises
        THEN [ret |-> None, raised |-> "TypeError", steps |-> AllSteps,
              frame |-> Some(locals)]
        ELSE [ret |-> Some(
                [underlying_price |-> ChainGet(ch, "underlying_price", None),
                 analysis |->
                   [call_volume |-> call_volume,
                    put_volume |-> put_volume,
                    total_volume |-> total_volume,
                    call_put_ratio |-> Round2(call_put_ratio),
                    call_open_interest |-> call_oi,
                    put_open_interest |-> put_oi,
                    total_open_interest |-> call_oi + put_oi,
                    avg_implied_volatility |-> RoundHalfEven(avg_iv.num, avg_iv.den),
                    max_pain |-> max_pain,
                    sentiment |-> sentiment,
                    distance_to_max_pain |-> distance.value],
                 unusual_activity |-> unusual_activity,
                 largest_positions |-> largest_positions]),
              raised |-> "none", steps |-> AllSteps, frame |-> Some(locals)]

\* analyze_options_flow without the `if "error" in chain: return chain` guard
analyze_options_flow_unguarded(ch, volume_threshold) ==
    Analytics(ch, volume_threshold)

\* analyze_options_flow on the chain get_options_chain returned
analyze_options_flow(ch, volume_threshold) ==
    IF "error" \in DOMAIN ch
    THEN [ret |-> Some(ch), raised |-> "none", steps |-> {}, frame |-> None]
    ELSE Analytics(ch, volume_threshold)

\* ------------------------------------------------------------ input domains
\* Strikes and open interest vary, nobody trades: the max-pain inputs.
PainContracts ==
    {OptionContract(k, 5, 0, oi, 2500) : k \in {90, 100, 110}, oi \in 0..MaxOI}

\* Volume (in lots of 11 contracts, above the floor of 10 of the unusual-volume
\* test) and open interest vary at one strike: the flow inputs.
FlowContracts ==
    {OptionContract(100, 5, 11 * v, oi, 2500) : v \in 0..MaxVol, oi \in 0..MaxOI}

\* Implied volatility varies (none, 0.20, 0.30, in units of 0.0001) on traded
\* contracts at one strike: the implied-volatility inputs.
IVContracts ==
    {OptionContract(100, 5, 11, 1, iv) : iv \in {0, 2000, 3000}}

\* quote.get("regularMarketPrice"): absent (None) or a price in sixteenths of
\* a dollar: 105.00 and 95.1875
Prices == {None, Some(1680), Some(1523)}

\* volume_threshold: the multipliers 1.5 and 2.0 a caller passes
Thresholds == {Rat(3, 2), Rat(2, 1)}

\* The volume multiplier argument of an entry point: left out, or passed
ThresholdArgs == {None} \cup {Some(t) : t \in Thresholds}

\* The default 1.5 at every entry point
DefaultVolumeThresholdSame(entry) == Rat(3, 2)

\* The default of the multiplier parameter in each signature:
\* volume_threshold: float = 1.5 (method and module-level
\* analyze_options_flow), threshold: float = 2.0 (get_unusual_options_activity)
DefaultVolumeThreshold(entry) ==
    IF entry = "get_unusual_options_activity" THEN Rat(2, 1) ELSE Rat(3, 2)

\* The value bound to the parameter for the argument the caller passed
BindThreshold(entry, arg) ==
    IF arg = None THEN DefaultVolumeThreshold(entry) ELSE arg[1]

\* ------------------------------------------------- objects and identity
\* An object: its kind, the scalars it holds, the objects it refers to
Obj(kind, value, refs) == [kind |-> kind, value |-> value, refs |-> refs]
NoValue == [none |-> TRUE]

\* Before the client and the chain exist
NoRoots == [client |-> 0, chain |-> 0, calls |-> 0, puts |-> 0, results |-> <<>>]

\* The values of the objects the list at id holds, in order
ListValue(h, id) == [k \in 1..Len(h[id].refs) |-> h[h[id].refs[k]].value]

\* for v in vs: <list at id>.append(<a new object holding v>)
RECURSIVE AppendNew(_, _, _, _)
AppendNew(h, id, kind, vs) ==
    IF vs = <<>> THEN h
    ELSE LET h1 == Append(h, Obj(kind, Head(vs), <<>>))
         IN  AppendNew([h1 EXCEPT ![id].refs = Append(@, Len(h1))], id, kind, Tail(vs))

\* <list at id>.sort(key=lambda x: x[key], reverse=True): in place
SortInPlace(h, id, key) ==
    LET keyed == [k \in 1..Len(h[id].refs) |->
                    [ref |-> h[id].refs[k], key |-> h[h[id].refs[k]].value[key]]]
        srt == SortDesc(keyed, "key")
    IN  [h EXCEPT ![id].refs = [k \in 1..Len(srt) |-> srt[k].ref]]

\* <list at id>[:n]: a new list of the same objects
Slice(h, id, n) == Append(h, Obj("list", NoValue, Take(h[id].refs, n)))

\* ------------------------------------------------------------ RateLimiter
\* RateLimiter.__init__
RateLimiter(max_calls, period) ==
    [max_calls |-> max_calls, period |-> period, calls |-> <<>>]

\* alpha_vantage_limiter = RateLimiter(max_calls=25, period=86400)
AlphaVantageMaxCalls == 25
AlphaVantagePeriod == 86400
alpha_vantage_limiter == RateLimiter(AlphaVantageMaxCalls, AlphaVantagePeriod)

\* Pruned with `c >= cutoff`
PrunedInclusive(self, now) ==
    LET cutoff == now - self.period
    IN  Select(self.calls, [i \in 1..Len(self.calls) |-> self.calls[i] >= cutoff])

\* cutoff = now - self.period; [c for c in self.calls if c > cutoff]
Pruned(self, now) ==
    LET cutoff == now - self.period
    IN  Select(self.calls, [i \in 1..Len(self.calls) |-> self.calls[i] > cutoff])

\* LimitExceeded with `>` for `>=`
LimitExceededAbove(self) == Len(self.calls) > self.max_calls

\* len(self.calls) >= self.max_calls
LimitExceeded(self) == Len(self.calls) >= self.max_calls

\* min(s) of a non-empty list
RECURSIVE MinOf(_)
MinOf(s) ==
    IF Len(s) = 1 THEN s[1]
    ELSE LET m == MinOf(Tail(s)) IN IF s[1] <= m THEN s[1] ELSE m

\* The exceptions of the model: [class, message]; no exception is NoException
Exception(class, message) == [class |-> class, message |-> message]
NoException == Exception("none", <<>>)

\* The branch taken when the limit is exceeded: min(self.calls) raises
\* ValueError on an empty list; otherwise wait_time is computed (int() of a
\* whole number of seconds) and RateLimitExceeded is raised with the message
\* built from max_calls, period and wait_time
Rejection(self, now) ==
    IF self.calls = <<>>
    THEN Exception("ValueError", <<"min() of an empty sequence">>)
    ELSE LET oldest_call == MinOf(self.calls)
             wait_time == self.period - (now - oldest_call)
         IN  Exception("RateLimitExceeded", <<self.max_calls, self.period, wait_time>>)

\* What a call returned or raised
Returned(value) == [ret |-> Some(value), raised |-> NoException]
Raised(e) == [ret |-> None, raised |-> e]

\* wrapper with the timestamp recorded before the limit is checked
wrapper_record_first(self, now, body) ==
    LET recorded == [self EXCEPT !.calls = Append(Pruned(self, now), now)]
    IN  IF Len(recorded.calls) > recorded.max_calls
        THEN [self |-> recorded, ran |-> FALSE,
              out |-> Raised(Rejection(recorded, now))]
        ELSE [self |-> recorded, ran |-> TRUE, out |-> body]

\* wrapper with the timestamp recorded after the function returned normally
wrapper_record_after(self, now, body) ==
    LET pruned == [self EXCEPT !.calls = Pruned(self, now)]
    IN  IF LimitExceeded(pruned)
        THEN [self |-> pruned, ran |-> FALSE, out |-> Raised(Rejection(pruned, now))]
        ELSE IF body.raised # NoException \/ body.ret = Some(<<>>)
        THEN [self |-> pruned, ran |-> TRUE, out |-> body]
        ELSE [self |-> [pruned EXCEPT !.calls = Append(@, now)],
              ran |-> TRUE, out |-> body]

\* wrapper(*args, **kwargs) of one thread, run without interruption at time
\* now, body being what func(*args, **kwargs) returns or raises: the limiter
\* afterwards, whether func ran, and what the wrapper returned or raised
wrapper(self, now, body) ==
    LET pruned == [self EXCEPT !.calls = Pruned(self, now)]
    IN  IF LimitExceeded(pruned)
        THEN [self |-> pruned, ran |-> FALSE, out |-> Raised(Rejection(pruned, now))]
        ELSE [self |-> [pruned EXCEPT !.calls = Append(@, now)],
              ran |-> TRUE, out |-> body]

\* ----------------------------------------------------------------- actions
\* A thread outside the wrapper
Idle == [pc |-> "idle"]

\* What the rate limiting has seen when the module is imported
NoHistory == [admitted |-> <<>>, least_oldest |-> None]

\* The modules imported: alpha_vantage_limiter built, one thread, time 0
InitModule ==
    /\ limiter = [name \in {"alpha_vantage_limiter"} |-> alpha_vantage_limiter]
    /\ clock = 0
    /\ threads = [t \in {1} |-> Idle]
    /\ history = NoHistory

\* Before the first request
InitOptions ==
    /\ pc = "fetch"
    /\ chain = ChainOf(<<>>, <<>>, None)
    /\ op = "none"
    /\ max_pain_ret = None
    /\ analysis = None
    /\ raised = "none"
    /\ steps = {}
    /\ frame = None
    /\ threshold_arg = None
    /\ heap = <<>>
    /\ roots = NoRoots

Init == InitModule /\ InitOptions

Outputs == <<op, max_pain_ret, analysis, raised, steps, frame, threshold_arg,
            heap, roots>>

\* _parse_options(options_data.get("calls", []), "call"): one loop iteration
ParseCall(D, maxcontracts) ==
    /\ pc = "fetch"
    /\ chain.puts = <<>>
    /\ Len(chain.calls) + Len(chain.puts) < maxcontracts
    /\ \E c \in D : chain' = ChainOf(Append(chain.calls, c), chain.puts, None)
    /\ UNCHANGED <<pc, Outputs, Limiting>>

\* _parse_options(options_data.get("puts", []), "put"): one loop iteration
ParsePut(D, maxcontracts) ==
    /\ pc = "fetch"
    /\ Len(chain.calls) + Len(chain.puts) < maxcontracts
    /\ \E p \in D : chain' = ChainOf(chain.calls, Append(chain.puts, p), None)
    /\ UNCHANGED <<pc, Outputs, Limiting>>

\* get_options_chain returns the chain mapping with the quote's price
ReturnChain ==
    /\ pc = "fetch"
    /\ \E price \in Prices : chain' = ChainOf(chain.calls, chain.puts, price)
    /\ pc' = "ready"
    /\ UNCHANGED <<Outputs, Limiting>>

\* get_options_chain returns an error mapping (no data, bad expiration, exception)
ReturnError ==
    /\ pc = "fetch"
    /\ chain' = ErrorChain
    /\ pc' = "ready"
    /\ UNCHANGED <<Outputs, Limiting>>

\* get_max_pain: client.calculate_max_pain(chain)
GetMaxPain ==
    /\ pc = "ready"
    /\ max_pain_ret' = Some(calculate_max_pain(chain))
    /\ op' = "get_max_pain"
    /\ pc' = "done"
    /\ UNCHANGED <<chain, analysis, raised, steps, frame, threshold_arg, heap, roots, Limiting>>

\* OptionsDataClient.analyze_options_flow after its get_options_chain call
AnalyzeOptionsFlow ==
    /\ pc = "ready"
    /\ \E arg \in ThresholdArgs :
         LET volume_threshold == BindThreshold("analyze_options_flow", arg)
             out == analyze_options_flow(chain, volume_threshold)
         IN  /\ threshold_arg' = arg
             /\ analysis' = out.ret
             /\ raised' = out.raised
             /\ steps' = out.steps
             /\ frame' = out.frame
    /\ op' = "analyze_options_flow"
    /\ pc' = "done"
    /\ UNCHANGED <<chain, max_pain_ret, heap, roots, Limiting>>

\* Module-level analyze_options_flow: a new client, then
\* client.analyze_options_flow(ticker, expiration, volume_threshold)
ModuleAnalyzeOptionsFlow ==
    /\ pc = "ready"
    /\ \E arg \in ThresholdArgs :
         LET volume_threshold == BindThreshold("module_analyze_options_flow", arg)
             out == analyze_options_flow(chain, volume_threshold)
         IN  /\ threshold_arg' = arg
             /\ analysis' = out.ret
             /\ raised' = out.raised
             /\ steps' = out.steps
             /\ frame' = out.frame
    /\ op' = "module_analyze_options_flow"
    /\ pc' = "done"
    /\ UNCHANGED <<chain, max_pain_ret, heap, roots, Limiting>>

\* get_unusual_options_activity: analysis = client.analyze_options_flow(ticker,
\* volume_threshold=threshold); return analysis.get("unusual_activity", []).
\* The list returned is kept under its key.
GetUnusualOptionsActivity ==
    /\ pc = "ready"
    /\ \E arg \in ThresholdArgs :
         LET threshold == BindThreshold("get_unusual_options_activity", arg)
             out == analyze_options_flow(chain, threshold)
         IN  /\ threshold_arg' = arg
             /\ analysis' =
                  IF out.ret = None THEN None
                  ELSE Some([unusual_activity |->
                               ChainGet(out.ret[1], "unusual_activity", <<>>)])
             /\ raised' = out.raised
             /\ steps' = out.steps
             /\ frame' = out.frame
    /\ op' = "get_unusual_options_activity"
    /\ pc' = "done"
    /\ UNCHANGED <<chain, max_pain_ret, heap, roots, Limiting>>

\* get_call_put_ratio without its test for an error mapping:
\* analysis["analysis"] on an error mapping raises KeyError
get_call_put_ratio_unguarded(analysis_map) ==
    IF "analysis" \notin DOMAIN analysis_map
    THEN [ret |-> None, raised |-> "KeyError"]
    ELSE LET a == analysis_map.analysis
         IN  [ret |-> Some(
                [call_put_volume_ratio |-> a.call_put_ratio,
                 call_put_oi_ratio |->
                   IF a.put_open_interest > 0
                   THEN Some(Round2(TrueDiv(a.call_open_interest, a.put_open_interest)))
                   ELSE None,
                 sentiment |-> a.sentiment]),
              raised |-> "none"]

\* get_call_put_ratio on the mapping analyze_options_flow returned: the error
\* mapping itself, or the ratios and the sentiment (the ticker and the
\* expiration, which the chain of the model leaves out, left out)
get_call_put_ratio(analysis_map) ==
    IF "error" \in DOMAIN analysis_map
    THEN [ret |-> Some(analysis_map), raised |-> "none"]
    ELSE LET a == analysis_map.analysis
         IN  [ret |-> Some(
                [call_put_volume_ratio |-> a.call_put_ratio,
                 call_put_oi_ratio |->
                   IF a.put_open_interest > 0
                   THEN Some(Round2(TrueDiv(a.call_open_interest, a.put_open_interest)))
                   ELSE None,
                 sentiment |-> a.sentiment]),
              raised |-> "none"]

\* Module-level get_call_put_ratio: a new client,
\* client.analyze_options_flow(ticker, expiration), then the summary; an
\* exception of analyze_options_flow propagates
GetCallPutRatio ==
    /\ pc = "ready"
    /\ LET volume_threshold == BindThreshold("analyze_options_flow", None)
           out == analyze_options_flow(chain, volume_threshold)
           summary == get_call_put_ratio(out.ret[1])
       IN  /\ threshold_arg' = None
           /\ analysis' = IF out.ret = None THEN None ELSE summary.ret
           /\ raised' = IF out.ret = None THEN out.raised ELSE summary.raised
           /\ steps' = out.steps
           /\ frame' = out.frame
    /\ op' = "get_call_put_ratio"
    /\ pc' = "done"
    /\ UNCHANGED <<chain, max_pain_ret, heap, roots, Limiting>>

\* The next request starts from a new client and a new chain
NewRequest ==
    /\ pc = "done"
    /\ pc' = "fetch"
    /\ chain' = ChainOf(<<>>, <<>>, None)
    /\ op' = "none"
    /\ max_pain_ret' = None
    /\ analysis' = None
    /\ raised' = "none"
    /\ steps' = {}
    /\ frame' = None
    /\ threshold_arg' = None
    /\ heap' = <<>>
    /\ roots' = NoRoots
    /\ UNCHANGED Limiting

Operations == ReturnChain \/ ReturnError \/ GetMaxPain \/ AnalyzeOptionsFlow \/ NewRequest

\* Requests over the flow inputs
Next ==
    \/ ParseCall(FlowContracts, MaxContracts)
    \/ ParsePut(FlowContracts, MaxContracts)
    \/ Operations

Spec == Init /\ [][Next]_vars

\* Requests over the max-pain inputs
NextPain ==
    \/ ParseCall(PainContracts, MaxContracts)
    \/ ParsePut(PainContracts, MaxContracts)
    \/ Operations

SpecPain == Init /\ [][NextPain]_vars

\* Volume varies (in lots of 11 contracts) at one strike and open interest
EntryContracts ==
    {OptionContract(100, 5, 11 * v, 1, 2500) : v \in 0..MaxVol}

\* Requests over these inputs through every entry point that runs the
\* unusual-volume detection
NextEntry ==
    \/ ParseCall(EntryContracts, MaxContracts)
    \/ ParsePut(EntryContracts, MaxContracts)
    \/ Operations
    \/ ModuleAnalyzeOptionsFlow
    \/ GetUnusualOptionsActivity
    \/ GetCallPutRatio

SpecEntry == Init /\ [][NextEntry]_vars

\* Requests over the implied-volatility inputs
NextIV ==
    \/ ParseCall(IVContracts, MaxContracts)
    \/ ParsePut(IVContracts, MaxContracts)
    \/ Operations

SpecIV == Init /\ [][NextIV]_vars

\* The worked chain: calls 100/110/120 with open interest 50/30/10, puts
\* 90/100/110 with open interest 20/40/60.
ScenarioCalls ==
    <<OptionContract(100, 5, 0, 50, 2500), OptionContract(110, 5, 0, 30, 2500),
      OptionContract(120, 5, 0, 10, 2500)>>

ScenarioPuts ==
    <<OptionContract(90, 5, 0, 20, 2500), OptionContract(100, 5, 0, 40, 2500),
      OptionContract(110, 5, 0, 60, 2500)>>

Range(s) == {s[i] : i \in 1..Len(s)}

\* Requests over chains made of the contracts of the worked chain
NextScenario ==
    \/ ParseCall(Range(ScenarioCalls), Len(ScenarioCalls) + Len(ScenarioPuts))
    \/ ParsePut(Range(ScenarioPuts), Len(ScenarioCalls) + Len(ScenarioPuts))
    \/ Operations

SpecScenario == Init /\ [][NextScenario]_vars

\* --------------------------------------------- _interpret_sentiment, direct
\* The ratios a caller can hand to _interpret_sentiment
SentimentRatios ==
    {Inf} \cup {Rat(n, d) : n \in 0..MaxRatioNum, d \in 1..MaxRatioDen}

\* client._interpret_sentiment(call_put_ratio, call_oi, put_oi)
InterpretSentiment ==
    /\ pc = "fetch"
    /\ chain = ChainOf(<<>>, <<>>, None)
    /\ \E call_put_ratio \in SentimentRatios,
          call_oi \in 0..MaxSentimentOI, put_oi \in 0..MaxSentimentOI :
         frame' = Some([call_put_ratio |-> call_put_ratio,
                        call_oi |-> call_oi, put_oi |-> put_oi,
                        sentiment |-> interpret_sentiment(call_put_ratio, call_oi, put_oi)])
    /\ op' = "interpret_sentiment"
    /\ pc' = "done"
    /\ UNCHANGED <<chain, max_pain_ret, analysis, raised, steps, threshold_arg, heap, roots, Limiting>>

\* Direct calls of the classifier
NextSentiment == InterpretSentiment \/ NewRequest

SpecSentiment == Init /\ [][NextSentiment]_vars

\* ------------------------------------------------ the list helpers, direct
\* r copies of contract c
RECURSIVE Repeat(_, _)
Repeat(c, r) == IF r = 0 THEN <<>> ELSE <<c>> \o Repeat(c, r - 1)

\* The list of contracts that the runs bs[i..] spell out
RECURSIVE ExpandFrom(_, _)
ExpandFrom(bs, i) ==
    IF i > Len(bs) THEN <<>>
    ELSE Repeat(bs[i][1], bs[i][2]) \o ExpandFrom(bs, i + 1)

RunLengths == {1, MaxRun}

\* Volumes around the floor of 10 (0, 10, 11, 22) at one last price
UnusualContracts ==
    {OptionContract(100, 95, v, 1, 2500) : v \in {0, 10, 11, 22}}

\* The multipliers 1.0 and 1.5
UnusualThresholds == {Rat(1, 1), Rat(3, 2)}

\* One volume above the floor at last prices below, at and above the strike,
\* next to contracts nobody traded
TagContracts ==
    {OptionContract(100, lp, 22, 1, 2500) : lp \in {95, 100, 105}}
    \cup {OptionContract(100, 95, 0, 1, 2500)}

TagThresholds == {Rat(1, 1)}

\* client._detect_unusual_volume(calls, puts, threshold), contracts from D and
\* the multiplier from T
DetectUnusualVolume(D, T) ==
    /\ pc = "fetch"
    /\ chain = ChainOf(<<>>, <<>>, None)
    /\ \E kc \in 0..MaxBlocks : \E kp \in 0..(MaxBlocks - kc) :
       \E bc \in [1..kc -> D \X RunLengths],
          bp \in [1..kp -> D \X RunLengths],
          threshold \in T :
         LET calls == ExpandFrom(bc, 1)
             puts  == ExpandFrom(bp, 1)
         IN  /\ chain' = ChainOf(calls, puts, None)
             /\ frame' = Some([threshold |-> threshold])
             /\ analysis' = Some([unusual_activity |->
                                    detect_unusual_volume(calls, puts, threshold)])
    /\ op' = "detect_unusual_volume"
    /\ pc' = "done"
    /\ UNCHANGED <<max_pain_ret, raised, steps, threshold_arg, heap, roots, Limiting>>

\* Direct calls of the unusual-volume detector, volumes varying
NextUnusual == DetectUnusualVolume(UnusualContracts, UnusualThresholds) \/ NewRequest

SpecUnusual == Init /\ [][NextUnusual]_vars

\* Direct calls of the unusual-volume detector, tags varying
NextTags == DetectUnusualVolume(TagContracts, TagThresholds) \/ NewRequest

SpecTags == Init /\ [][NextTags]_vars

\* -------------------------------------------- direct calls of the ranker
\* Contracts for the ranker: two strikes, open interest 1 or 2
LargestContracts ==
    {OptionContract(k, 5, 0, oi, 2500) : k \in {100, 110}, oi \in {1, 2}}

\* client._find_largest_positions(calls, puts)
FindLargestPositions ==
    /\ pc = "fetch"
    /\ chain = ChainOf(<<>>, <<>>, None)
    /\ \E kc \in 0..MaxBlocks : \E kp \in 0..(MaxBlocks - kc) :
       \E bc \in [1..kc -> LargestContracts \X RunLengths],
          bp \in [1..kp -> LargestContracts \X RunLengths] :
         LET calls == ExpandFrom(bc, 1)
             puts  == ExpandFrom(bp, 1)
         IN  /\ chain' = ChainOf(calls, puts, None)
             /\ analysis' = Some([largest_positions |->
                                    find_largest_positions(calls, puts)])
    /\ op' = "find_largest_positions"
    /\ pc' = "done"
    /\ UNCHANGED <<max_pain_ret, raised, steps, frame, threshold_arg, heap, roots, Limiting>>

NextLargest == FindLargestPositions \/ NewRequest

SpecLargest == Init /\ [][NextLargest]_vars

\* ------------------------------------------- the helpers on objects
\* Chains held as objects, and calls made on them one after another.
MaxHeapContracts == 2
MaxHeapCalls == 2

\* Each helper below answers [heap, result]: the objects after the call and
\* the identities of what it returned (none for a number).

\* calculate_max_pain reads the chain and returns a float
HeapCalculateMaxPain(h, c, p) == [heap |-> h, result |-> {}]

\* _detect_unusual_volume: alerts = [] is a new list; it is returned as it is
\* when avg_volume == 0, and otherwise filled, sorted in place and sliced
HeapDetectUnusualVolume(h, c, p, threshold) ==
    LET calls == ListValue(h, c)
        puts  == ListValue(h, p)
        h1 == Append(h, Obj("list", NoValue, <<>>))
        alerts == Len(h1)
        h2 == AppendNew(h1, alerts, "dict", unusual_alerts(calls, puts, threshold))
        h3 == SortInPlace(h2, alerts, "volume")
    IN  IF AvgVolumeIsZero(calls, puts)
        THEN [heap |-> h1, result |-> {alerts}]
        ELSE [heap |-> Slice(h3, alerts, 10), result |-> {Len(h3) + 1}]

\* _find_largest_positions that merges into calls and sorts calls in place
HeapFindLargestPositionsInPlace(h, c, p) ==
    LET h1 == [h EXCEPT ![c].refs = @ \o h[p].refs]
        h2 == SortInPlace(h1, c, "open_interest")
    IN  [heap |-> Slice(h2, c, 10), result |-> {Len(h2) + 1}]

\* _find_largest_positions: all_contracts = [] is a new list, filled with new
\* mappings, sorted in place and sliced
HeapFindLargestPositions(h, c, p) ==
    LET h1 == Append(h, Obj("list", NoValue, <<>>))
        all_contracts == Len(h1)
        h2 == AppendNew(h1, all_contracts, "dict",
                        all_positions(ListValue(h, c), ListValue(h, p)))
        h3 == SortInPlace(h2, all_contracts, "open_interest")
    IN  [heap |-> Slice(h3, all_contracts, 10), result |-> {Len(h3) + 1}]

\* The aggregation of analyze_options_flow over the lists at c and p
HeapAggregate(h, c, p) ==
    LET calls == ListValue(h, c)
        puts  == ListValue(h, p)
        call_volume == SumSeq([i \in 1..Len(calls) |-> calls[i].volume])
        put_volume  == SumSeq([i \in 1..Len(puts) |-> puts[i].volume])
    IN  [call_put_ratio |-> CallPutRatio(call_volume, put_volume),
         call_oi |-> SumSeq([i \in 1..Len(calls) |-> calls[i].open_interest]),
         put_oi |-> SumSeq([i \in 1..Len(puts) |-> puts[i].open_interest])]

\* _interpret_sentiment returns a new mapping of strings
HeapInterpretSentiment(h, call_put_ratio, call_oi, put_oi) ==
    [heap |-> Append(h, Obj("dict", interpret_sentiment(call_put_ratio, call_oi, put_oi), <<>>)),
     result |-> {Len(h) + 1}]

\* The analytics path of analyze_options_flow on the chain mapping at ch: the
\* helpers in the order called, then the "analysis" mapping (holding the
\* sentiment mapping) and the result mapping (holding the two lists and the
\* chain's available_expirations list).  No result when the path raises.
HeapAnalytics(h, ch, volume_threshold) ==
    LET c == h[ch].refs[1]
        p == h[ch].refs[2]
        expirations == h[ch].refs[3]
        out == Analytics(ChainOf(ListValue(h, c), ListValue(h, p), h[ch].value.underlying_price),
                         volume_threshold)
        agg == HeapAggregate(h, c, p)
        s1 == HeapCalculateMaxPain(h, c, p)
        s2 == HeapDetectUnusualVolume(s1.heap, c, p, volume_threshold)
        s3 == HeapFindLargestPositions(s2.heap, c, p)
        s4 == HeapInterpretSentiment(s3.heap, agg.call_put_ratio, agg.call_oi, agg.put_oi)
        unusual == CHOOSE id \in s2.result : TRUE
        largest == CHOOSE id \in s3.result : TRUE
        sentiment == CHOOSE id \in s4.result : TRUE
        h5 == Append(s4.heap, Obj("dict", NoValue, <<sentiment>>))
        h6 == Append(h5, Obj("dict", NoValue, <<Len(h5), unusual, largest, expirations>>))
    IN  IF out.ret = None THEN [heap |-> s4.heap, result |-> {}]
        ELSE [heap |-> h6, result |-> {Len(h6)}]

\* get_options_chain: new calls, puts and available_expirations lists, new
\* contracts, and the chain mapping holding the three lists
HeapGetOptionsChain(h, cv, pv, price) ==
    LET calls == Len(h) + 1
        puts == Len(h) + 2
        h1 == h \o <<Obj("list", NoValue, <<>>), Obj("list", NoValue, <<>>),
                     Obj("list", NoValue, <<>>)>>
        h2 == AppendNew(AppendNew(h1, calls, "contract", cv), puts, "contract", pv)
    IN  [heap |-> Append(h2, Obj("dict", [underlying_price |-> price],
                                 <<calls, puts, Len(h) + 3>>)),
         id |-> Len(h2) + 1]

\* Contracts for the chains held as objects: volume 0 or 22, open interest 1 or 2
HeapContracts ==
    {OptionContract(100, 95, v, oi, 2500) : v \in {0, 22}, oi \in {1, 2}}

\* client = OptionsDataClient(); chain = client.get_options_chain(...)
HeapFetch ==
    /\ pc = "fetch"
    /\ chain = ChainOf(<<>>, <<>>, None)
    /\ heap = <<>>
    /\ \E kc \in 0..MaxHeapContracts : \E kp \in 0..(MaxHeapContracts - kc) :
       \E cv \in [1..kc -> HeapContracts], pv \in [1..kp -> HeapContracts],
          price \in Prices :
         LET h0 == <<Obj("session", NoValue, <<>>), Obj("client", NoValue, <<1>>)>>
             got == HeapGetOptionsChain(h0, cv, pv, price)
         IN  /\ heap' = got.heap
             /\ roots' = [client |-> 2, chain |-> got.id,
                          calls |-> got.heap[got.id].refs[1],
                          puts |-> got.heap[got.id].refs[2],
                          results |-> <<>>]
             /\ chain' = ChainOf(cv, pv, price)
    /\ pc' = "ready"
    /\ UNCHANGED <<op, max_pain_ret, analysis, raised, steps, frame, threshold_arg, Limiting>>

\* A helper called on the chain the caller holds returned: the caller now
\* holds its result as well
HeapReturn(name, out) ==
    /\ heap' = out.heap
    /\ roots' = [roots EXCEPT !.results = Append(@, out.result)]
    /\ op' = name
    /\ pc' = IF Len(roots.results) + 1 = MaxHeapCalls THEN "done" ELSE "ready"
    /\ UNCHANGED <<chain, max_pain_ret, analysis, raised, steps, frame, threshold_arg, Limiting>>

HeldChain == pc = "ready" /\ roots.chain # 0

CallCalculateMaxPain ==
    /\ HeldChain
    /\ HeapReturn("calculate_max_pain", HeapCalculateMaxPain(heap, roots.calls, roots.puts))

CallDetectUnusualVolume ==
    /\ HeldChain
    /\ \E threshold \in Thresholds :
         HeapReturn("detect_unusual_volume",
                    HeapDetectUnusualVolume(heap, roots.calls, roots.puts, threshold))

CallFindLargestPositions ==
    /\ HeldChain
    /\ HeapReturn("find_largest_positions",
                  HeapFindLargestPositions(heap, roots.calls, roots.puts))

CallInterpretSentiment ==
    /\ HeldChain
    /\ LET agg == HeapAggregate(heap, roots.calls, roots.puts)
       IN  HeapReturn("interpret_sentiment",
                      HeapInterpretSentiment(heap, agg.call_put_ratio, agg.call_oi, agg.put_oi))

\* client.analyze_options_flow: it fetches the chain itself (the same upstream
\* data, as new objects) and runs the analytics path on it
CallAnalyzeOptionsFlow ==
    /\ HeldChain
    /\ \E volume_threshold \in Thresholds :
         LET got == HeapGetOptionsChain(heap, chain.calls, chain.puts, chain.underlying_price)
         IN  HeapReturn("analyze_options_flow",
                        HeapAnalytics(got.heap, got.id, volume_threshold))

NextHeap ==
    \/ HeapFetch
    \/ CallCalculateMaxPain
    \/ CallDetectUnusualVolume
    \/ CallFindLargestPositions
    \/ CallInterpretSentiment
    \/ CallAnalyzeOptionsFlow
    \/ NewRequest

SpecHeap == Init /\ [][NextHeap]_vars

\* ---------------------------------------------------------- safe_api_call
\* The base of each exception class: the classes of security_utils, the ones
\* of requests.exceptions (RequestException derives from IOError, that is
\* OSError) and some built-in ones
Base(class) ==
    CASE class \in {"RateLimitExceeded", "ValidationError", "APIError",
                    "ValueError", "OSError"} -> "Exception"
      [] class = "RequestException" -> "OSError"
      [] class = "requests.Timeout" -> "RequestException"
      [] OTHER -> "BaseException"

\* issubclass(class, base)
RECURSIVE IsSubclass(_, _)
IsSubclass(class, base) ==
    \/ class = base
    \/ class # "BaseException" /\ IsSubclass(Base(class), base)

\* The except clauses with `except Exception` written first
HandlersExceptionFirst ==
    << [class |-> "Exception", type |-> "unknown",
        error |-> Some("An unexpected error occurred.")],
       [class |-> "RateLimitExceeded", type |-> "rate_limit", error |-> None],
       [class |-> "ValidationError", type |-> "validation", error |-> None],
       [class |-> "RequestException", type |-> "network",
        error |-> Some("Network error. Please try again later.")] >>

\* The except clauses of safe_api_call's wrapper, in order: the class caught,
\* the type reported, and the fixed error text (None: str(e) is reported)
Handlers ==
    << [class |-> "RateLimitExceeded", type |-> "rate_limit", error |-> None],
       [class |-> "ValidationError", type |-> "validation", error |-> None],
       [class |-> "RequestException", type |-> "network",
        error |-> Some("Network error. Please try again later.")],
       [class |-> "Exception", type |-> "unknown",
        error |-> Some("An unexpected error occurred.")] >>

\* The wrapper of safe_api_call around a call that ended as out: the first
\* except clause that matches builds the error mapping; an exception no
\* clause matches propagates
safe_api_call(out) ==
    IF out.raised = NoException THEN out
    ELSE LET e == out.raised
             matching == {k \in 1..Len(Handlers) : IsSubclass(e.class, Handlers[k].class)}
         IN  IF matching = {} THEN out
             ELSE LET h == Handlers[CHOOSE k \in matching : \A j \in matching : k <= j]
                  IN  Returned([error |-> IF h.error = None THEN Some(e.message) ELSE h.error,
                                type |-> h.type])

\* ------------------------------------------------- rate-limited functions
\* What a decorated function does once it runs: it returns a value or raises
Bodies ==
    {Returned("data")}
    \cup {Raised(Exception(class, <<"message">>)) :
            class \in {"RateLimitExceeded", "ValidationError", "APIError",
                       "RequestException", "requests.Timeout", "ValueError",
                       "KeyboardInterrupt"}}

\* The same, told apart only by returning or raising
DirectBodies == {Returned("data"), Raised(Exception("ValueError", <<"message">>))}

\* A limiter built for one function: RateLimiter(max_calls, period), as
\* rate_limited(max_calls, period) returns it
InitLimiter ==
    /\ InitOptions
    /\ \E max_calls \in 0..MaxCalls, period \in 1..MaxPeriod :
         limiter = [name \in {"limiter"} |-> RateLimiter(max_calls, period)]
    /\ clock = 0
    /\ threads = [t \in {1} |-> Idle]
    /\ history = NoHistory

OptionsVars == <<pc, chain, Outputs>>

\* Time passes: time.time() grows by step seconds, up to last
Tick(step, last) ==
    /\ clock + step <= last
    /\ clock' = clock + step
    /\ UNCHANGED <<limiter, threads, history, OptionsVars>>

\* The history after a call of the wrapper ended as w at time now
Recorded(w, now) ==
    [admitted |-> IF w.ran THEN Append(history.admitted, now) ELSE history.admitted,
     least_oldest |->
        IF w.out.raised.class = "RateLimitExceeded" /\ ~w.ran
        THEN LET oldest_call == MinOf(w.self.calls)
             IN  IF history.least_oldest = None THEN Some(oldest_call)
                 ELSE Some(IF history.least_oldest[1] <= oldest_call
                           THEN history.least_oldest[1] ELSE oldest_call)
        ELSE history.least_oldest]

\* Thread t calls the function decorated with limiter name, whose body would
\* return or raise body; via is "direct", or "safe_api_call" when the
\* decorated function is itself wrapped by safe_api_call
Call(t, name, request, body, via) ==
    LET w == wrapper(limiter[name], clock, body)
    IN  /\ threads[t].pc \in {"idle", "returned"}
        /\ limiter' = [limiter EXCEPT ![name] = w.self]
        /\ threads' = [threads EXCEPT ![t] =
                         [pc |-> "returned", now |-> clock, limiter |-> name,
                          request |-> request, via |-> via,
                          ran |-> w.ran, out |-> w.out,
                          got |-> IF via = "safe_api_call"
                                  THEN safe_api_call(w.out) ELSE w.out]]
        /\ history' = Recorded(w, clock)
        /\ UNCHANGED <<clock, OptionsVars>>

\* A call of a rate-limited function
Invoke == \E body \in DirectBodies : Call(1, "limiter", body, body, "direct")

\* A call of a rate-limited function wrapped by safe_api_call
SafeInvoke == \E body \in Bodies : Call(1, "limiter", body, body, "safe_api_call")

NextLimiter == Tick(1, MaxTime) \/ Invoke \/ SafeInvoke

SpecLimiter == InitLimiter /\ [][NextLimiter]_vars

\* ------------------------------------------------------- MarketDataClient
\* MarketDataClient.__init__: api_key is the argument or the environment
\* variable (None when neither is there), has_api_key its truth value
MarketDataClient(api_key) ==
    [api_key |-> api_key, has_api_key |-> (api_key # None /\ api_key # Some(""))]

\* The clients of the model: one built with a key, one without
Clients == <<MarketDataClient(Some("KEY")), MarketDataClient(None)>>

\* The limiter a call of client.get_price_history goes through: the
\* decorator is applied once, in the class body, to the module-level object
LimiterOf(client) == "alpha_vantage_limiter"

\* sanitize_ticker on the tickers of the model: "AAPL" is valid as it is,
\* " aapl" is stripped and upper-cased, "" and "A;B" are refused
sanitize_ticker(ticker) ==
    CASE ticker = "AAPL" -> Some("AAPL")
      [] ticker = " aapl" -> Some("AAPL")
      [] OTHER -> None

\* validate_numeric(value, min_val, max_val) on a number or a numeric string
\* (float(value) succeeds on both)
validate_numeric(value, min_val, max_val) ==
    value.number >= min_val /\ value.number <= max_val

\* days as the caller passes it: an int, or a str such as "30"
Days(type, number) == [type |-> type, number |-> number]

\* The body of MarketDataClient.get_price_history: the three early returns
\* of [], `days <= 100` on a str (TypeError, outside the try), and the
\* fetch, whose failures are caught and give []
get_price_history(self, ticker, days, response) ==
    IF ~self.has_api_key THEN Returned(<<>>)
    ELSE IF sanitize_ticker(ticker) = None THEN Returned(<<>>)
    ELSE IF ~validate_numeric(days, 1, 5000) THEN Returned(<<>>)
    ELSE IF days.type = "str"
    THEN Raised(Exception("TypeError", <<"'<=' not supported between str and int">>))
    ELSE IF response = "error" THEN Returned(<<>>)
    ELSE Returned(<<"PricePoint">>)

\* The calls of the model: client, ticker, days, and what the fetch meets
Requests ==
    {[client |-> 2, ticker |-> "AAPL", days |-> Days("int", 30), response |-> "series"],
     [client |-> 1, ticker |-> "A;B", days |-> Days("int", 30), response |-> "series"],
     [client |-> 1, ticker |-> "AAPL", days |-> Days("int", 0), response |-> "series"],
     [client |-> 1, ticker |-> "AAPL", days |-> Days("str", 30), response |-> "series"],
     [client |-> 1, ticker |-> " aapl", days |-> Days("int", 30), response |-> "error"],
     [client |-> 1, ticker |-> "AAPL", days |-> Days("int", 30), response |-> "series"]}

\* The modules imported and the clients built
InitQuota ==
    /\ InitOptions
    /\ limiter = [name \in {LimiterOf(c) : c \in 1..Len(Clients)} |-> alpha_vantage_limiter]
    /\ clock = 0
    /\ threads = [t \in {1} |-> Idle]
    /\ history = NoHistory

\* client.get_price_history(ticker, days)
GetPriceHistory ==
    \E r \in Requests :
        Call(1, LimiterOf(r.client), r,
             get_price_history(Clients[r.client], r.ticker, r.days, r.response),
             "direct")

NextQuota ==
    \/ Tick(AlphaVantagePeriod, MaxQuotaPeriods * AlphaVantagePeriod)
    \/ GetPriceHistory

SpecQuota == InitQuota /\ [][NextQuota]_vars

\* ------------------------------------------------------ concurrent callers
\* The statements of the wrapper, one step each; a thread may be preempted
\* between any two of them, and between the evaluation of the list
\* comprehension of line 138 and the assignment of its value to self.calls.
Threads == 1..MaxThreads

InitThreads ==
    /\ InitOptions
    /\ \E max_calls \in 1..MaxCalls, period \in 1..MaxPeriod :
         limiter = [name \in {"limiter"} |-> RateLimiter(max_calls, period)]
    /\ clock = 0
    /\ threads = [t \in Threads |-> Idle]
    /\ history = NoHistory

\* Calls begun and not returned, and calls whose function ran
InFlight == Cardinality({t \in Threads : threads[t].pc \notin {"idle", "returned"}})

Step(t, frame_after) ==
    /\ threads' = [threads EXCEPT ![t] = frame_after]
    /\ UNCHANGED <<clock, OptionsVars>>

\* now = time.time()
ReadClock(t) ==
    /\ threads[t].pc \in {"idle", "returned"}
    /\ InFlight + Len(history.admitted) < MaxInvocations
    /\ Step(t, [pc |-> "prune", now |-> clock])
    /\ UNCHANGED <<limiter, history>>

\* cutoff = now - self.period; the value of [c for c in self.calls if c > cutoff]
Comprehend(t) ==
    /\ threads[t].pc = "prune"
    /\ Step(t, [pc |-> "assign", now |-> threads[t].now,
                kept |-> Pruned(limiter["limiter"], threads[t].now)])
    /\ UNCHANGED <<limiter, history>>

\* self.calls = <that value>
AssignCalls(t) ==
    /\ threads[t].pc = "assign"
    /\ limiter' = [limiter EXCEPT !["limiter"].calls = threads[t].kept]
    /\ Step(t, [pc |-> "check", now |-> threads[t].now])
    /\ UNCHANGED history

\* if len(self.calls) >= self.max_calls
CheckLimit(t) ==
    /\ threads[t].pc = "check"
    /\ Step(t, [pc |-> IF LimitExceeded(limiter["limiter"]) THEN "reject" ELSE "record",
                now |-> threads[t].now])
    /\ UNCHANGED <<limiter, history>>

\* oldest_call = min(self.calls); wait_time = ...; raise RateLimitExceeded(...)
RaiseRejection(t) ==
    /\ threads[t].pc = "reject"
    /\ Step(t, [pc |-> "returned", now |-> threads[t].now, ran |-> FALSE,
                out |-> Raised(Rejection(limiter["limiter"], threads[t].now))])
    /\ UNCHANGED <<limiter, history>>

\* self.calls.append(now)
RecordCall(t) ==
    /\ threads[t].pc = "record"
    /\ limiter' = [limiter EXCEPT !["limiter"].calls = Append(@, threads[t].now)]
    /\ Step(t, [pc |-> "call", now |-> threads[t].now])
    /\ UNCHANGED history

\* return func(*args, **kwargs)
RunFunction(t) ==
    /\ threads[t].pc = "call"
    /\ history' = [history EXCEPT !.admitted = Append(@, threads[t].now)]
    /\ Step(t, [pc |-> "returned", now |-> threads[t].now, ran |-> TRUE,
                out |-> Returned("data")])
    /\ UNCHANGED limiter

NextThreads ==
    \/ Tick(1, MaxTime)
    \/ \E t \in Threads :
         \/ ReadClock(t)
         \/ Comprehend(t)
         \/ AssignCalls(t)
         \/ CheckLimit(t)
         \/ RaiseRejection(t)
         \/ RecordCall(t)
         \/ RunFunction(t)

SpecThreads == InitThreads /\ [][NextThreads]_vars

\* ================================================================== claims
\* Vocabulary of the claims, stated over the chain and not over the code.
RECURSIVE SumOver(_, _)
SumOver(f, I) ==
    IF I = {} THEN 0
    ELSE LET i == CHOOSE j \in I : TRUE
         IN  f[i] + SumOver(f, I \ {i})

\* total(S): calls below S pay (S - strike) * oi * 100, puts above S pay
\* (strike - S) * oi * 100
PayoutSum(S, calls, puts) ==
    SumOver([i \in 1..Len(calls) |-> (S - calls[i].strike) * calls[i].open_interest * 100],
            {i \in 1..Len(calls) : calls[i].strike < S})
    + SumOver([i \in 1..Len(puts) |-> (puts[i].strike - S) * puts[i].open_interest * 100],
              {i \in 1..Len(puts) : puts[i].strike > S})

HasError == "error" \in DOMAIN chain
NoContracts == ~HasError /\ chain.calls = <<>> /\ chain.puts = <<>>
SomeContract == ~HasError /\ (chain.calls # <<>> \/ chain.puts # <<>>)
ChainStrikes ==
    {chain.calls[i].strike : i \in 1..Len(chain.calls)}
    \cup {chain.puts[i].strike : i \in 1..Len(chain.puts)}
ChainOIs ==
    {chain.calls[i].open_interest : i \in 1..Len(chain.calls)}
    \cup {chain.puts[i].open_interest : i \in 1..Len(chain.puts)}

MaxPainDone == pc = "done" /\ op = "get_max_pain"
AnalyzeDone == pc = "done" /\ op = "analyze_options_flow"

\* S minimises total over the chain's strikes
Minimises(S) ==
    /\ S \in ChainStrikes
    /\ \A T \in ChainStrikes :
         PayoutSum(S, chain.calls, chain.puts) <= PayoutSum(T, chain.calls, chain.puts)

\* C1: on a chain without error and with at least one contract,
\* calculate_max_pain returns the strike minimising total(S), and the lowest
\* such strike when several reach the minimum.
C1_MaxPainIsLowestMinimiser ==
    (MaxPainDone /\ SomeContract) =>
        /\ max_pain_ret # None
        /\ Minimises(max_pain_ret[1])
        /\ \A T \in ChainStrikes : Minimises(T) => max_pain_ret[1] <= T

\* A returned max pain where two strikes tie at a non-zero minimum
C1_Witness ==
    /\ MaxPainDone /\ SomeContract
    /\ \E T \in ChainStrikes : T # max_pain_ret[1] /\ Minimises(T)
    /\ PayoutSum(max_pain_ret[1], chain.calls, chain.puts) > 0

IsScenario == ~HasError /\ chain.calls = ScenarioCalls /\ chain.puts = ScenarioPuts

\* C2 as claimed: on the worked chain calculate_max_pain returns 100 and 100
\* minimises the payout sum.
C2_ScenarioReturns100 ==
    (MaxPainDone /\ IsScenario) => (max_pain_ret = Some(100) /\ Minimises(100))

\* C2 amended: on the worked chain calculate_max_pain returns 110, the
\* strike minimising the payout sum (50000 at 110 against 60000 at 100).
C2_ScenarioReturns110 ==
    (MaxPainDone /\ IsScenario) =>
        /\ max_pain_ret = Some(110)
        /\ Minimises(110)
        /\ PayoutSum(110, chain.calls, chain.puts) = 50000
        /\ PayoutSum(100, chain.calls, chain.puts) = 60000

\* get_max_pain returned on the worked chain
C2_Witness == MaxPainDone /\ IsScenario /\ max_pain_ret # None

\* C3: when retrieval returns an error mapping, analyze_options_flow returns
\* that mapping unchanged and calls none of the analytics helpers.
C3_ErrorPassedThrough ==
    (AnalyzeDone /\ HasError) =>
        /\ analysis = Some(chain)
        /\ steps = {}
        /\ raised = "none"
        /\ frame = None

\* analyze_options_flow returned on an error mapping
C3_Witness == AnalyzeDone /\ HasError /\ analysis # None

\* C4 as claimed: on every chain retrieved without error, an absent
\* underlying price included, analyze_options_flow returns a result mapping
\* and raises nothing.
C4_NeverRaises ==
    (AnalyzeDone /\ ~HasError) => (raised = "none" /\ analysis # None)

\* C5: calculate_max_pain returns 0.0 when the chain is an error mapping or
\* has no contract in either leg.
C5_ZeroOnErrorOrEmpty ==
    (MaxPainDone /\ (HasError \/ NoContracts)) =>
        (max_pain_ret = Some(0) /\ raised = "none")

\* get_max_pain returned on a chain without contracts
C5_Witness == MaxPainDone /\ NoContracts /\ max_pain_ret = Some(0)

\* C6: on a non-empty chain whose contracts all have open interest 0,
\* calculate_max_pain returns the lowest strike of the chain.
C6_AllZeroOIReturnsLowest ==
    (MaxPainDone /\ SomeContract /\ ChainOIs = {0}) =>
        /\ max_pain_ret # None
        /\ max_pain_ret[1] \in ChainStrikes
        /\ \A T \in ChainStrikes : max_pain_ret[1] <= T

\* get_max_pain returned on an all-zero chain with several strikes
C6_Witness ==
    /\ MaxPainDone /\ SomeContract /\ ChainOIs = {0}
    /\ Cardinality(ChainStrikes) >= 2

\* The chain without the i-th call, without the i-th put
DropAt(s, i) == SubSeq(s, 1, i - 1) \o SubSeq(s, i + 1, Len(s))
WithoutCall(i) == ChainOf(DropAt(chain.calls, i), chain.puts, chain.underlying_price)
WithoutPut(i) == ChainOf(chain.calls, DropAt(chain.puts, i), chain.underlying_price)
HasContracts(ch) == ch.calls # <<>> \/ ch.puts # <<>>

\* C7 as claimed: the chain with a zero-open-interest contract added to a
\* chain of at least one contract has the max pain of the chain without it.
C7_ZeroOINeverChangesResult ==
    (MaxPainDone /\ ~HasError) =>
        /\ \A i \in 1..Len(chain.calls) :
             (chain.calls[i].open_interest = 0 /\ HasContracts(WithoutCall(i)))
                => max_pain_ret = Some(calculate_max_pain(WithoutCall(i)))
        /\ \A i \in 1..Len(chain.puts) :
             (chain.puts[i].open_interest = 0 /\ HasContracts(WithoutPut(i)))
                => max_pain_ret = Some(calculate_max_pain(WithoutPut(i)))

\* C7 amended: a zero-open-interest contract adds 0 to the payout total of
\* every candidate strike, and adding one at a strike the chain already has
\* does not change the strike calculate_max_pain returns.
C7_ZeroOIAtPresentStrike ==
    (MaxPainDone /\ ~HasError) =>
        /\ \A i \in 1..Len(chain.calls) :
             chain.calls[i].open_interest = 0 =>
                LET rest == WithoutCall(i)
                IN  /\ \A S \in ChainStrikes :
                         TotalPain(S, chain.calls, chain.puts)
                            = TotalPain(S, rest.calls, rest.puts)
                    /\ chain.calls[i].strike \in AllStrikes(rest.calls, rest.puts)
                         => max_pain_ret = Some(calculate_max_pain(rest))
        /\ \A i \in 1..Len(chain.puts) :
             chain.puts[i].open_interest = 0 =>
                LET rest == WithoutPut(i)
                IN  /\ \A S \in ChainStrikes :
                         TotalPain(S, chain.calls, chain.puts)
                            = TotalPain(S, rest.calls, rest.puts)
                    /\ chain.puts[i].strike \in AllStrikes(rest.calls, rest.puts)
                         => max_pain_ret = Some(calculate_max_pain(rest))

\* get_max_pain returned on a chain holding a zero-open-interest call at a
\* strike where a contract with open interest also sits, off the lowest strike
C7_Witness ==
    /\ MaxPainDone /\ ~HasError
    /\ \E i \in 1..Len(chain.calls) :
         /\ chain.calls[i].open_interest = 0
         /\ \E j \in 1..Len(chain.puts) :
              /\ chain.puts[j].strike = chain.calls[i].strike
              /\ chain.puts[j].open_interest > 0
         /\ \E T \in ChainStrikes : T < chain.calls[i].strike

\* Sums of the claims, over the chain in the state
ChainCallVolume == SumOver([i \in 1..Len(chain.calls) |-> chain.calls[i].volume],
                           1..Len(chain.calls))
ChainPutVolume == SumOver([i \in 1..Len(chain.puts) |-> chain.puts[i].volume],
                          1..Len(chain.puts))

\* x = n / d exactly, for a ratio x of the model
IsQuotient(x, n, d) == ~x.inf /\ x.den > 0 /\ x.num * d = n * x.den

\* x = round(n / d, 2)
IsQuotientRounded(x, n, d) ==
    ~x.inf /\ x.den = 100 /\ 2 * Abs(x.num * d - 100 * n) <= d

\* C8: call_put_ratio is call_volume / put_volume when put_volume > 0 and
\* +infinity when put_volume = 0, over the summed volumes of the legs (the
\* result mapping reports it rounded to 2 places); no division error.
C8_CallPutRatio ==
    (AnalyzeDone /\ ~HasError) =>
        /\ raised # "ZeroDivisionError"
        /\ frame # None
        /\ frame[1].call_volume = ChainCallVolume
        /\ frame[1].put_volume = ChainPutVolume
        /\ ChainPutVolume > 0 =>
             IsQuotient(frame[1].call_put_ratio, ChainCallVolume, ChainPutVolume)
        /\ ChainPutVolume = 0 => frame[1].call_put_ratio.inf
        /\ analysis # None =>
             /\ ChainPutVolume > 0 =>
                  IsQuotientRounded(analysis[1].analysis.call_put_ratio,
                                    ChainCallVolume, ChainPutVolume)
             /\ ChainPutVolume = 0 => analysis[1].analysis.call_put_ratio.inf

\* analyze_options_flow returned on a chain whose calls traded and whose puts
\* did not
C8_Witness ==
    /\ AnalyzeDone /\ ~HasError /\ analysis # None
    /\ ChainPutVolume = 0 /\ ChainCallVolume > 0 /\ chain.puts # <<>>

\* C9 as claimed: call_put_ratio is +infinity iff put_volume = 0 and
\* call_volume > 0.
C9_InfIffPutZeroAndCallPositive ==
    (AnalyzeDone /\ ~HasError /\ frame # None) =>
        (frame[1].call_put_ratio.inf <=> (ChainPutVolume = 0 /\ ChainCallVolume > 0))

\* C9 amended: call_put_ratio is +infinity iff put_volume = 0, whatever
\* call_volume is (0 included).
C9_InfIffPutZero ==
    (AnalyzeDone /\ ~HasError) =>
        /\ frame # None
        /\ frame[1].call_put_ratio.inf <=> ChainPutVolume = 0
        /\ analysis # None =>
             (analysis[1].analysis.call_put_ratio.inf <=> ChainPutVolume = 0)

\* analyze_options_flow returned +infinity on a chain with contracts where
\* nothing traded on either side
C9_Witness ==
    /\ AnalyzeDone /\ ~HasError /\ analysis # None
    /\ chain.calls # <<>> /\ chain.puts # <<>>
    /\ ChainPutVolume = 0 /\ ChainCallVolume = 0
    /\ analysis[1].analysis.call_put_ratio.inf

\* The decision table: row k matches ratio r (a ratio of the model) and the
\* open-interest ratio call_oi / put_oi (+infinity when put_oi = 0)
RowMatches(k, r, call_oi, put_oi) ==
    LET above15 == r.inf \/ 10 * r.num > 15 * r.den
        above12 == r.inf \/ 10 * r.num > 12 * r.den
        below07 == ~r.inf /\ 10 * r.num < 7 * r.den
        below09 == ~r.inf /\ 10 * r.num < 9 * r.den
        oiAbove12 == put_oi = 0 \/ 10 * call_oi > 12 * put_oi
        oiBelow08 == put_oi > 0 /\ 10 * call_oi < 8 * put_oi
    IN  CASE k = 1 -> above15 /\ oiAbove12
          [] k = 2 -> above12
          [] k = 3 -> below07 /\ oiBelow08
          [] k = 4 -> below09
          [] OTHER -> TRUE

RowPair ==
    << <<"BULLISH", "STRONG">>, <<"BULLISH", "MODERATE">>, <<"BEARISH", "STRONG">>,
       <<"BEARISH", "MODERATE">>, <<"NEUTRAL", "WEAK">> >>

FirstRow(r, call_oi, put_oi) ==
    CHOOSE k \in 1..Len(RowPair) :
        /\ RowMatches(k, r, call_oi, put_oi)
        /\ \A j \in 1..(k - 1) : ~RowMatches(j, r, call_oi, put_oi)

\* C10: _interpret_sentiment answers, for every input it is called with
\* (ratio +infinity and put_oi = 0 included), the bias/strength pair of the
\* first row of the decision table that matches, one of the five pairs.
C10_SentimentFirstMatch ==
    (AnalyzeDone /\ ~HasError) =>
        /\ frame # None
        /\ LET f == frame[1]
               pair == <<f.sentiment.bias, f.sentiment.strength>>
           IN  /\ pair \in {RowPair[k] : k \in 1..Len(RowPair)}
               /\ pair = RowPair[FirstRow(f.call_put_ratio, f.call_oi, f.put_oi)]
        /\ analysis # None => analysis[1].analysis.sentiment = frame[1].sentiment

\* analyze_options_flow returned a BEARISH/MODERATE sentiment although the
\* volume ratio is below 0.7: the open-interest test of the STRONG row failed
C10_Witness ==
    /\ AnalyzeDone /\ ~HasError /\ analysis # None
    /\ RowMatches(4, frame[1].call_put_ratio, frame[1].call_oi, frame[1].put_oi)
    /\ 10 * frame[1].call_put_ratio.num < 7 * frame[1].call_put_ratio.den
    /\ frame[1].put_oi = 0
    /\ analysis[1].analysis.sentiment.bias = "BEARISH"
    /\ analysis[1].analysis.sentiment.strength = "MODERATE"

SentimentDone == pc = "done" /\ op = "interpret_sentiment" /\ frame # None
SentimentPair == <<frame[1].sentiment.bias, frame[1].sentiment.strength>>
\* the ratio handed in is exactly a / b
RatioIs(a, b) ==
    ~frame[1].call_put_ratio.inf
    /\ frame[1].call_put_ratio.num * b = a * frame[1].call_put_ratio.den

\* C11: the thresholds are strict: ratio exactly 1.5 never gives
\* BULLISH/STRONG, exactly 1.2 never BULLISH/MODERATE, exactly 0.7 never
\* BEARISH/STRONG, exactly 0.9 never BEARISH/MODERATE, whatever the open
\* interest.
C11_StrictThresholds ==
    SentimentDone =>
        /\ RatioIs(15, 10) => SentimentPair # <<"BULLISH", "STRONG">>
        /\ RatioIs(12, 10) => SentimentPair # <<"BULLISH", "MODERATE">>
        /\ RatioIs(7, 10) => SentimentPair # <<"BEARISH", "STRONG">>
        /\ RatioIs(9, 10) => SentimentPair # <<"BEARISH", "MODERATE">>

\* The classifier was called with ratio exactly 1.5 and an open-interest
\* ratio above 1.2, and answered BULLISH/MODERATE
C11_Witness ==
    /\ SentimentDone /\ RatioIs(15, 10)
    /\ frame[1].put_oi > 0 /\ 10 * frame[1].call_oi > 12 * frame[1].put_oi
    /\ SentimentPair = <<"BULLISH", "MODERATE">>

\* ------------------------------------------------- unusual-volume claims
UnusualDone == pc = "done" /\ op = "detect_unusual_volume"
Alerts == analysis[1].unusual_activity
\* The contracts handed in, calls first: position i, its leg, its contract
NumContracts == Len(chain.calls) + Len(chain.puts)
TypeAt(i) == IF i <= Len(chain.calls) THEN "CALL" ELSE "PUT"
At(i) == IF i <= Len(chain.calls) THEN chain.calls[i] ELSE chain.puts[i - Len(chain.calls)]
VolumeTotal == ChainCallVolume + ChainPutVolume

\* volume v reaches mean volume * multiplier and exceeds 10
Qualifies(v) ==
    /\ v > 10
    /\ v * NumContracts * frame[1].threshold.den >= VolumeTotal * frame[1].threshold.num

QualifyingAt ==
    LET n == NumContracts
        total == VolumeTotal
        th == frame[1].threshold
    IN  {i \in 1..n : /\ At(i).volume > 10
                      /\ At(i).volume * n * th.den >= total * th.num}

\* Entry e of the list reports the contract at position i
Reports(e, i) ==
    /\ e.type = TypeAt(i)
    /\ e.strike = At(i).strike
    /\ e.volume = At(i).volume
    /\ e.open_interest = At(i).open_interest

\* The qualifying contracts that an entry reporting position i could report
LookAlikes(Q, i) ==
    {j \in Q : /\ TypeAt(j) = TypeAt(i)
               /\ At(j).strike = At(i).strike
               /\ At(j).volume = At(i).volume
               /\ At(j).open_interest = At(i).open_interest}

ChainVolumes == {At(i).volume : i \in 1..NumContracts}
Min(a, b) == IF a <= b THEN a ELSE b

\* C13: the list has at most 10 entries, is sorted by volume in
\* non-increasing order, holds the highest-volume flagged contracts (for every
\* volume v it has as many entries of volume >= v as there are flagged
\* contracts of volume >= v, up to 10), and is empty when the average volume
\* is 0, the chain without contracts included.
C13_TopTenByVolume ==
    UnusualDone =>
        /\ Len(Alerts) <= 10
        /\ \A k \in 1..Len(Alerts) - 1 : Alerts[k].volume >= Alerts[k + 1].volume
        /\ LET Q == QualifyingAt
           IN  \A v \in ChainVolumes :
                 Cardinality({k \in 1..Len(Alerts) : Alerts[k].volume >= v})
                   = Min(10, Cardinality({i \in Q : At(i).volume >= v}))
        /\ VolumeTotal = 0 => Alerts = <<>>

\* More than 10 contracts are flagged, with two different volumes among
\* them, and a flagged contract of the lower volume is left out
C13_Witness ==
    /\ UnusualDone
    /\ Cardinality(QualifyingAt) > 10
    /\ Len(Alerts) = 10
    /\ Alerts[1].volume > Alerts[10].volume
    /\ Cardinality({i \in QualifyingAt : At(i).volume = Alerts[10].volume})
         > Cardinality({k \in 1..10 : Alerts[k].volume = Alerts[10].volume})

\* Place of a flagged contract in the stable descending order: one more than
\* the flagged contracts of greater volume and the earlier ones of equal volume
RankIn(Q, i) ==
    1 + Cardinality({j \in Q : \/ At(j).volume > At(i).volume
                               \/ At(j).volume = At(i).volume /\ j < i})

Rank(i) == RankIn(QualifyingAt, i)

CallTagOf(c) == IF c.strike > c.last_price THEN "BULLISH" ELSE "SPECULATIVE"
PutTagOf(c) == IF c.strike < c.last_price THEN "BEARISH" ELSE "HEDGE"
TagAt(i) == IF TypeAt(i) = "CALL" THEN CallTagOf(At(i)) ELSE PutTagOf(At(i))

\* C14: ties keep their original order, calls in chain order before puts in
\* chain order: the flagged contract at position i of the chain is the entry
\* at its place in the stable descending order, and the flagged contracts
\* whose place is beyond 10 are the ones dropped.
C14_StableTies ==
    UnusualDone =>
        LET Q == QualifyingAt
        IN  /\ Len(Alerts) = Min(10, Cardinality(Q))
            /\ \A i \in Q :
                 LET r == RankIn(Q, i)
                 IN  r <= 10 => /\ Reports(Alerts[r], i)
                                /\ Alerts[r].sentiment = TagAt(i)

\* Two flagged contracts of equal volume that differ in leg or tag, the
\* earlier one listed and the later one dropped by the truncation
C14_Witness ==
    /\ UnusualDone
    /\ \E i, j \in QualifyingAt :
         /\ i < j /\ At(i).volume = At(j).volume
         /\ <<TypeAt(i), TagAt(i)>> # <<TypeAt(j), TagAt(j)>>
         /\ Rank(i) <= 10 /\ Rank(j) > 10
         /\ Alerts[Rank(i)].type = TypeAt(i)
         /\ Alerts[Rank(i)].sentiment = TagAt(i)

\* C15: a listed call is BULLISH when its strike > its last_price and
\* SPECULATIVE otherwise, a listed put is BEARISH when its strike < its
\* last_price and HEDGE otherwise; a call is never BEARISH or HEDGE and a put
\* never BULLISH or SPECULATIVE.
C15_Tags ==
    UnusualDone =>
        /\ \A k \in 1..Len(Alerts) :
             /\ Alerts[k].type = "CALL" => Alerts[k].sentiment \in {"BULLISH", "SPECULATIVE"}
             /\ Alerts[k].type = "PUT" => Alerts[k].sentiment \in {"BEARISH", "HEDGE"}
        /\ LET Q == QualifyingAt
           IN  \A i \in Q :
                 LET r == RankIn(Q, i)
                 IN  r <= 10 =>
                       Alerts[r].sentiment
                         = IF TypeAt(i) = "CALL"
                             THEN (IF At(i).strike > At(i).last_price
                                   THEN "BULLISH" ELSE "SPECULATIVE")
                             ELSE (IF At(i).strike < At(i).last_price
                                   THEN "BEARISH" ELSE "HEDGE")

\* A listed call and a listed put with strike = last_price, tagged
\* SPECULATIVE and HEDGE, next to a BULLISH call
C15_Witness ==
    /\ UnusualDone
    /\ NumContracts = 3 /\ Len(Alerts) = 3
    /\ \E i \in QualifyingAt :
         /\ TypeAt(i) = "CALL" /\ At(i).strike = At(i).last_price
         /\ Alerts[Rank(i)].sentiment = "SPECULATIVE"
    /\ \E j \in QualifyingAt :
         /\ TypeAt(j) = "PUT" /\ At(j).strike = At(j).last_price
         /\ Alerts[Rank(j)].sentiment = "HEDGE"
    /\ \E l \in QualifyingAt :
         /\ TypeAt(l) = "CALL" /\ Alerts[Rank(l)].sentiment = "BULLISH"

\* ----------------------------------------------- largest-position claims
LargestDone == pc = "done" /\ op = "find_largest_positions"
Positions == analysis[1].largest_positions

\* Place of the contract at position i of the merge in the stable descending
\* order by open interest
OIRank(i) ==
    1 + Cardinality({j \in 1..NumContracts :
                        \/ At(j).open_interest > At(i).open_interest
                        \/ At(j).open_interest = At(i).open_interest /\ j < i})

\* C16: the ranker returns exactly min(10, |calls| + |puts|) entries of the
\* merge of calls and puts, sorted by open interest in non-increasing order
\* with ties in merge order (calls before puts, each in chain order): the
\* contract at merge position i is the entry at its place in the stable
\* descending order, and the contracts whose place is beyond 10 are omitted,
\* so no omitted contract has more open interest than an included one.
C16_LargestPositions ==
    LargestDone =>
        /\ Len(Positions) = Min(10, NumContracts)
        /\ \A k \in 1..Len(Positions) - 1 :
             Positions[k].open_interest >= Positions[k + 1].open_interest
        /\ \A i \in 1..NumContracts :
             LET r == OIRank(i)
             IN  /\ r <= 10 =>
                      /\ Positions[r].type = TypeAt(i)
                      /\ Positions[r].strike = At(i).strike
                      /\ Positions[r].open_interest = At(i).open_interest
                 /\ r > 10 =>
                      At(i).open_interest <= Positions[10].open_interest

\* More than 10 contracts of both legs, a tie on open interest between a
\* call and a later put of another strike of which the put is omitted
C16_Witness ==
    /\ LargestDone /\ NumContracts > 10
    /\ Positions[1].open_interest > Positions[10].open_interest
    /\ \E i, j \in 1..NumContracts :
         /\ TypeAt(i) = "CALL" /\ TypeAt(j) = "PUT"
         /\ At(i).open_interest = At(j).open_interest
         /\ At(i).strike # At(j).strike
         /\ OIRank(i) <= 10 /\ OIRank(j) > 10
         /\ Positions[OIRank(i)].type = "CALL"

\* ---------------------------------------------------- distance to max pain
\* analyze_options_flow returned a result mapping (no error, no exception)
FlowResult == AnalyzeDone /\ raised = "none" /\ ~HasError /\ analysis # None
Distance == analysis[1].analysis.distance_to_max_pain
ResultMaxPain == analysis[1].analysis.max_pain

\* C17: in the result of analyze_options_flow, distance_to_max_pain is null
\* exactly when max_pain is 0, and otherwise is a whole number of hundredths
\* within half a hundredth of |underlying_price - max_pain| (the price in
\* sixteenths: |16 d - 100 |p - 16 max_pain|| <= 8).
C17_DistanceToMaxPain ==
    FlowResult =>
        /\ Distance = None <=> ResultMaxPain = 0
        /\ Distance # None =>
             /\ analysis[1].underlying_price # None
             /\ Distance[1] >= 0
             /\ Abs(16 * Distance[1]
                    - 100 * Abs(analysis[1].underlying_price[1] - 16 * ResultMaxPain)) <= 8

\* A result whose price lies below max pain by an amount that is not a whole
\* number of hundredths
C17_Witness ==
    /\ FlowResult /\ Distance # None
    /\ analysis[1].underlying_price[1] < 16 * ResultMaxPain
    /\ (100 * (16 * ResultMaxPain - analysis[1].underlying_price[1])) % 16 # 0

\* ------------------------------------------------ average implied volatility
\* The analytics path of analyze_options_flow ran on the chain
AnalyticsRan == AnalyzeDone /\ ~HasError /\ frame # None
WithIV == {i \in 1..NumContracts : At(i).implied_volatility > 0}
IVSum == SumOver([i \in 1..NumContracts |-> At(i).implied_volatility], WithIV)
AvgIV == frame[1].avg_iv

\* C19: the average implied volatility is the mean of implied_volatility over
\* exactly the contracts of both legs with implied_volatility > 0 and is 0 when
\* there is none; the result reports it times 100, to the nearest hundredth
\* (the unit of implied volatility here, 0.0001, is a hundredth of a percent).
C19_AverageIV ==
    AnalyticsRan =>
        /\ ~AvgIV.inf /\ AvgIV.den > 0
        /\ WithIV = {} => AvgIV.num = 0
        /\ WithIV # {} => AvgIV.num * Cardinality(WithIV) = IVSum * AvgIV.den
        /\ analysis # None =>
             LET reported == analysis[1].analysis.avg_implied_volatility
             IN  2 * Abs(reported * AvgIV.den - AvgIV.num) <= AvgIV.den

\* A result for a chain with a contract of implied volatility 0 next to two
\* different positive ones, one on each leg
C19_Witness ==
    /\ AnalyticsRan /\ analysis # None
    /\ \E i, j, l \in 1..NumContracts :
         /\ At(i).implied_volatility = 0
         /\ At(j).implied_volatility > 0
         /\ At(l).implied_volatility > At(j).implied_volatility
         /\ TypeAt(j) # TypeAt(l)
    /\ analysis[1].analysis.avg_implied_volatility * Cardinality(WithIV) = IVSum

\* ------------------------------------------------- default volume multiplier
EntryPoints ==
    {"analyze_options_flow", "module_analyze_options_flow",
     "get_unusual_options_activity"}

\* An entry point ran the unusual-volume detection for a caller who passed no
\* multiplier, and returned
DefaultedRun ==
    /\ pc = "done" /\ op \in EntryPoints
    /\ threshold_arg = None
    /\ ~HasError /\ frame # None /\ analysis # None

\* The contracts whose volume exceeds 10 and reaches mean volume * num / den
QualifyingUnder(num, den) ==
    {i \in 1..NumContracts :
        /\ At(i).volume > 10
        /\ At(i).volume * NumContracts * den >= VolumeTotal * num}

\* The detection ran with multiplier num / den: the parameter has that value
\* and the list returned holds the contracts qualifying under it
RanWith(num, den) ==
    /\ frame[1].volume_threshold.num * den = num * frame[1].volume_threshold.den
    /\ Len(analysis[1].unusual_activity) = Cardinality(QualifyingUnder(num, den))

\* C20 as stated: with no multiplier from the caller, every entry point runs
\* the detection with 1.5.
C20_DefaultEverywhere ==
    DefaultedRun => RanWith(3, 2)

\* C20: with no multiplier from the caller, the analyze_options_flow method
\* and the module-level analyze_options_flow run the detection with 1.5, and
\* get_unusual_options_activity runs it with 2.0.
C20_DefaultPerEntryPoint ==
    DefaultedRun =>
        IF op = "get_unusual_options_activity" THEN RanWith(2, 1) ELSE RanWith(3, 2)

\* get_unusual_options_activity without a multiplier returns no alert for a
\* chain where contracts qualify under 1.5
C20_Witness ==
    /\ DefaultedRun /\ op = "get_unusual_options_activity"
    /\ QualifyingUnder(3, 2) # {}
    /\ analysis[1].unusual_activity = <<>>

\* ------------------------------------------------ inputs and results as objects
\* The objects reachable from the objects in S
RECURSIVE Reach(_, _)
Reach(h, S) ==
    LET T == S \cup UNION {Range(h[i].refs) : i \in S}
    IN  IF T = S THEN S ELSE Reach(h, T)

\* The chain's calls and puts lists: which contracts, in which order, with
\* which field values
InputView ==
    <<heap[roots.calls].refs, heap[roots.puts].refs,
      ListValue(heap, roots.calls), ListValue(heap, roots.puts)>>

\* What the caller held before the latest call: the client and earlier results
HeldBefore(h, r) ==
    Reach(h, {r.client}) \cup UNION {Reach(h, r.results[k]) : k \in 1..Len(r.results)}

\* A helper was called on the chain the caller holds, and returned
HelperCall ==
    /\ roots.chain # 0
    /\ roots'.chain = roots.chain
    /\ Len(roots'.results) = Len(roots.results) + 1

\* C18: a call of calculate_max_pain, _detect_unusual_volume,
\* _find_largest_positions, _interpret_sentiment or analyze_options_flow
\* leaves the chain's calls and puts lists with the same contracts, in the
\* same order, with the same field values, and what it returns shares no
\* object with the client or with the results of earlier calls.
C18_InputsKeptResultsFresh ==
    [][HelperCall =>
          /\ InputView' = InputView
          /\ Reach(heap', roots'.results[Len(roots'.results)])
               \cap HeldBefore(heap', roots) = {}]_vars

\* Two calls on a chain with contracts on both legs returned lists holding
\* entries, the later one from a call that sorts
C18_Witness ==
    /\ roots.chain # 0 /\ Len(roots.results) = 2
    /\ heap[roots.calls].refs # <<>> /\ heap[roots.puts].refs # <<>>
    /\ Cardinality(Reach(heap, roots.results[1])) > 2
    /\ Cardinality(Reach(heap, roots.results[2])) > 2
    /\ op = "find_largest_positions"
    /\ heap[heap[roots.calls].refs[1]].value.open_interest
         < heap[heap[roots.puts].refs[1]].value.open_interest

\* ------------------------------------------------ max pain is a strike
\* C24: on a chain with at least one contract the value calculate_max_pain
\* returns is one of the chain's strikes, through get_max_pain and inside
\* analyze_options_flow alike; so when every strike is above 0 the value is
\* not 0, and a result of analyze_options_flow carries a distance_to_max_pain
\* that is not null.
C24_MaxPainIsAStrike ==
    LET positive == \A k \in ChainStrikes : k > 0
    IN  /\ (MaxPainDone /\ SomeContract) =>
              /\ max_pain_ret # None
              /\ max_pain_ret[1] \in ChainStrikes
              /\ positive => max_pain_ret[1] # 0
        /\ (FlowResult /\ SomeContract) =>
              /\ ResultMaxPain \in ChainStrikes
              /\ positive => (ResultMaxPain # 0 /\ Distance # None)

\* A result of analyze_options_flow on a chain of two strikes, none of them
\* carrying open interest, with a distance to the max pain
C24_Witness ==
    /\ FlowResult /\ SomeContract
    /\ Cardinality(ChainStrikes) = 2
    /\ ChainOIs = {0}
    /\ Distance # None

\* ------------------------------------------- sentiment without any put
ChainPutOI == SumOver([i \in 1..Len(chain.puts) |-> chain.puts[i].open_interest],
                      1..Len(chain.puts))
ChainCallOI == SumOver([i \in 1..Len(chain.calls) |-> chain.calls[i].open_interest],
                       1..Len(chain.calls))

\* The bias and strength analyze_options_flow computed on the chain
ComputedSentiment == <<frame[1].sentiment.bias, frame[1].sentiment.strength>>

\* C25: on a chain retrieved without error whose puts carry no volume and no
\* open interest (the empty chain and the chain nobody trades or holds
\* included) analyze_options_flow computes the sentiment BULLISH/STRONG and
\* reports it in its result; and on no chain with put open interest 0 does it
\* compute BEARISH/STRONG.
C25_NoPutsIsBullishStrong ==
    (AnalyzeDone /\ ~HasError) =>
        /\ frame # None
        /\ (ChainPutVolume = 0 /\ ChainPutOI = 0) =>
              /\ ComputedSentiment = <<"BULLISH", "STRONG">>
              /\ frame[1].call_put_ratio.inf
              /\ analysis # None =>
                    /\ analysis[1].analysis.sentiment.bias = "BULLISH"
                    /\ analysis[1].analysis.sentiment.strength = "STRONG"
        /\ ChainPutOI = 0 => ComputedSentiment # <<"BEARISH", "STRONG">>

\* A result on a chain with contracts, none traded and none held, reporting
\* BULLISH/STRONG
C25_Witness ==
    /\ FlowResult /\ SomeContract
    /\ ChainCallVolume = 0 /\ ChainPutVolume = 0
    /\ ChainCallOI = 0 /\ ChainPutOI = 0
    /\ analysis[1].analysis.sentiment.bias = "BULLISH"
    /\ analysis[1].analysis.sentiment.strength = "STRONG"

\* ------------------------------------- retrieval errors at the entry points
UnusualActivityDone == pc = "done" /\ op = "get_unusual_options_activity"
CallPutRatioDone == pc = "done" /\ op = "get_call_put_ratio"
EmptyActivity == Some([unusual_activity |-> <<>>])

\* C26: when chain retrieval reports an error, get_unusual_options_activity
\* returns the empty list and get_max_pain returns 0.0, the values they
\* return on a chain retrieved without any contract, while
\* get_call_put_ratio returns the error mapping itself; none of them raises.
C26_ErrorsAbsorbedOrForwarded ==
    /\ (UnusualActivityDone /\ (HasError \/ NoContracts)) =>
          (analysis = EmptyActivity /\ raised = "none")
    /\ (MaxPainDone /\ (HasError \/ NoContracts)) =>
          (max_pain_ret = Some(0) /\ raised = "none")
    /\ (CallPutRatioDone /\ HasError) =>
          (analysis = Some(chain) /\ raised = "none")
    /\ (CallPutRatioDone /\ ~HasError /\ analysis # None) =>
          "error" \notin DOMAIN analysis[1]

\* get_unusual_options_activity returned the empty list on a retrieval error
C26_Witness ==
    UnusualActivityDone /\ HasError /\ analysis = EmptyActivity

\* ------------------------------------------------------- the rate limiter
\* The limiter built for the function, and the thread calling it
TheLimiter == limiter["limiter"]
Caller == threads[1]

\* The invocations whose function ran at a time in the window (lo, hi]
AdmittedIn(lo, hi) ==
    {i \in 1..Len(history.admitted) :
        lo < history.admitted[i] /\ history.admitted[i] <= hi}

\* The last call was turned away by the limit check / ran the function
Rejected == Caller.pc = "returned" /\ ~Caller.ran
Admitted == Caller.pc = "returned" /\ Caller.ran

\* C21: with max_calls >= 1 and period > 0, after any calls of one thread at
\* non-decreasing times, at most max_calls of the invocations whose function
\* ran lie in any window (s - period, s], and the recorded list holds at
\* most max_calls timestamps.
C21_AdmissionBound ==
    (TheLimiter.max_calls >= 1 /\ TheLimiter.period > 0) =>
        /\ \A s \in 0..clock :
             Cardinality(AdmittedIn(s - TheLimiter.period, s)) <= TheLimiter.max_calls
        /\ Len(TheLimiter.calls) <= TheLimiter.max_calls

\* A call was rejected with the window full, and over the whole run more
\* than max_calls invocations were admitted because earlier ones expired
C21_Witness ==
    /\ TheLimiter.max_calls >= 1
    /\ Rejected
    /\ Cardinality(AdmittedIn(clock - TheLimiter.period, clock)) = TheLimiter.max_calls
    /\ Len(history.admitted) > TheLimiter.max_calls

\* C22 as claimed: whenever the limit check of the wrapper fails, for every
\* max_calls >= 0 (max_calls = 0, where the recorded list is empty,
\* included), the wrapper raises RateLimitExceeded and no other exception.
C22_RejectsWithRateLimitExceeded ==
    (Rejected /\ TheLimiter.max_calls >= 0) =>
        Caller.out.raised.class = "RateLimitExceeded"

\* ----------------------------------------------------------- safe_api_call
\* The last call went through the wrapper of safe_api_call
SafeCalled == Caller.pc = "returned" /\ Caller.via = "safe_api_call"

\* The type the error mapping is to carry for an exception of a class
ExpectedType(class) ==
    IF IsSubclass(class, "RateLimitExceeded") THEN "rate_limit"
    ELSE IF IsSubclass(class, "ValidationError") THEN "validation"
    ELSE IF IsSubclass(class, "RequestException") THEN "network"
    ELSE "unknown"

\* C23: a function wrapped by safe_api_call propagates no Exception: when the
\* wrapped function raises one, the wrapper returns an error mapping of type
\* rate_limit, validation, network or unknown according to the exception's
\* class; when it returns, the wrapper returns the same value.
C23_NoExceptionPropagates ==
    SafeCalled =>
        LET out == Caller.out
            got == Caller.got
        IN  /\ out.raised = NoException => got = out
            /\ (out.raised # NoException /\ IsSubclass(out.raised.class, "Exception")) =>
                  /\ got.raised = NoException
                  /\ got.ret # None
                  /\ DOMAIN got.ret[1] = {"error", "type"}
                  /\ got.ret[1].type = ExpectedType(out.raised.class)

\* The limiter turned a call away and safe_api_call reported it as rate_limit
C23_Witness ==
    /\ SafeCalled /\ Rejected
    /\ Caller.out.raised.class = "RateLimitExceeded"
    /\ Caller.got.ret # None
    /\ Caller.got.ret[1].type = "rate_limit"

\* ------------------------------------------------------ rejected attempts
\* The recorded calls newer than now - period, in their order
Fresh(calls, now, period) == SelectSeq(calls, LAMBDA c : c > now - period)

\* The times from now to now + period at which a limiter in state L admits
AdmissionTimes(L, now) ==
    {s \in now..(now + L.period) :
        Cardinality({i \in 1..Len(L.calls) : L.calls[i] > s - L.period}) < L.max_calls}

\* C27: a rejected invocation runs no function and records no timestamp: the
\* recorded calls afterwards are the ones recorded before that are newer
\* than now - period, and the times at which the limiter admits the next
\* call are what they were before the attempt.
C27_RejectionLeavesLimiter ==
    [][(clock' = clock /\ threads' # threads /\ ~threads'[1].ran) =>
         /\ history'.admitted = history.admitted
         /\ limiter'["limiter"].calls
              = Fresh(TheLimiter.calls, clock, TheLimiter.period)
         /\ limiter'["limiter"].max_calls = TheLimiter.max_calls
         /\ limiter'["limiter"].period = TheLimiter.period
         /\ AdmissionTimes(limiter'["limiter"], clock) = AdmissionTimes(TheLimiter, clock)
      ]_vars

\* A call rejected a second after the oldest recorded call, which a rejected
\* attempt had already reported
C27_Witness ==
    /\ Rejected
    /\ TheLimiter.max_calls >= 1
    /\ Caller.out.raised.class = "RateLimitExceeded"
    /\ history.least_oldest # None
    /\ clock > history.least_oldest[1]
    /\ TheLimiter.calls # <<>>

\* ----------------------------------------------------------------- recovery
\* C28: once a call has been rejected with oldest recorded call t0, a call
\* at a time >= t0 + period is admitted whenever fewer than max_calls
\* admitted invocations lie in the window ending at that time; and, with
\* max_calls >= 1, the call that follows a rejection at t with no attempt in
\* between, at a time >= t + period, is admitted.
C28_Recovery ==
    [][(clock' = clock /\ threads' # threads) =>
         /\ ( /\ history.least_oldest # None
              /\ clock >= history.least_oldest[1] + TheLimiter.period
              /\ Cardinality(AdmittedIn(clock - TheLimiter.period, clock))
                   < TheLimiter.max_calls )
            => threads'[1].ran
         /\ ( /\ TheLimiter.max_calls >= 1
              /\ Rejected
              /\ clock >= Caller.now + TheLimiter.period )
            => threads'[1].ran
      ]_vars

\* A call admitted a full period after a rejection reported its oldest
\* recorded call, the window holding that one call again
C28_Witness ==
    /\ Admitted
    /\ TheLimiter.max_calls >= 1
    /\ history.least_oldest # None
    /\ Caller.now >= history.least_oldest[1] + TheLimiter.period
    /\ TheLimiter.calls = <<Caller.now>>

\* ------------------------------------------------ the Alpha Vantage quota
SharedLimiter == limiter["alpha_vantage_limiter"]

\* C29: a call of get_price_history that passes the limit check takes one
\* slot of the quota before its body runs, whatever the body then does
\* (early return without key, on an invalid ticker or days, an exception):
\* the call passes exactly when fewer than 25 calls, of any client and of
\* any outcome, passed within the last 86400 seconds, and then its
\* timestamp is recorded in the one limiter of the module.
C29_EveryAdmittedCallCounts ==
    [][(clock' = clock /\ threads' # threads) =>
         LET n == Cardinality(AdmittedIn(clock - AlphaVantagePeriod, clock))
         IN  /\ DOMAIN limiter = {"alpha_vantage_limiter"}
             /\ threads'[1].ran <=> n < AlphaVantageMaxCalls
             /\ threads'[1].ran =>
                  /\ history'.admitted = Append(history.admitted, clock)
                  /\ limiter'["alpha_vantage_limiter"].calls
                       = Append(Fresh(SharedLimiter.calls, clock, SharedLimiter.period),
                                clock)
                  /\ Len(limiter'["alpha_vantage_limiter"].calls) = n + 1
      ]_vars

\* The call of the client without a key returned early and took the 25th
\* slot of the second day
C29_Witness ==
    /\ Admitted
    /\ ~Clients[Caller.request.client].has_api_key
    /\ Caller.out = Returned(<<>>)
    /\ Len(SharedLimiter.calls) = AlphaVantageMaxCalls
    /\ Len(history.admitted) > AlphaVantageMaxCalls

\* ------------------------------------------------------ concurrent callers
\* How often a timestamp occurs in a list
Occurrences(s, c) == Cardinality({i \in 1..Len(s) : s[i] = c})

\* C30 as claimed: with the wrapper's steps of several threads interleaved,
\* at most max_calls of the invocations whose function ran lie in any window
\* (s - period, s], and every timestamp of such an invocation that is newer
\* than the current time minus period is still in the recorded list.
C30_ConcurrentCallersBounded ==
    /\ \A s \in 0..clock :
         Cardinality(AdmittedIn(s - TheLimiter.period, s)) <= TheLimiter.max_calls
    /\ \A c \in (clock - TheLimiter.period + 1)..clock :
         Occurrences(TheLimiter.calls, c) >= Occurrences(history.admitted, c)

====
